---------------------------- MODULE Spec2Model ----------------------------
(***************************************************************************)
(* Model of report.py (cloud posture report): the paged fetch of one       *)
(* filtered checks query (_fetch_checks_with_filter), the per-account      *)
(* service partitioning (get_checks_for_account,                           *)
(* _get_checks_with_comprehensive_service_chunking,                        *)
(* ServiceConcurrencyManager) and the checkpointed multi-account run       *)
(* (ProgressTracker, main).                                                *)
(*                                                                         *)
(* The specifications of the module:                                       *)
(*   SpecFetch   one call of _fetch_checks_with_filter against an arbitrary*)
(*               backend, one action per loop iteration;                   *)
(*   SpecChunk   one call of get_checks_for_account against an arbitrary   *)
(*               backend population, one action per service sub-query step;*)
(*   SpecRun     processes of the script over a shared file system: a run, *)
(*               its crash or interrupt, and a fresh process started with  *)
(*               --resume; a mark of the ProgressTracker is one step;      *)
(*   SpecTracker the threads of one process inside ProgressTracker, one    *)
(*               action per statement group of a mark;                     *)
(*   SpecReport  process_checks_for_account and the StreamingReporter;     *)
(*   SpecWindow  one account from the backend's checks to the report's     *)
(*               sheets, every sub-query fetched completely;               *)
(*   SpecDedup   _deduplicate_checks applied to a list and to its output;  *)
(*   SpecHandler threads calling RateLimitHandler.handle_rate_limit;       *)
(*   SpecCatalog account workers calling _get_official_service_list;       *)
(*   SpecService the sub-queries of concurrent accounts at the semaphore   *)
(*               of ServiceConcurrencyManager;                             *)
(*   SpecLimiter ServiceConcurrencyManager._rate_limit and the page        *)
(*               requests that follow it, with a clock;                    *)
(*   SpecStats   the account workers updating service_discovery_stats and  *)
(*               discovered_services, one action per interpreter operation;*)
(*   SpecFilter  one call of _get_unknown_services, strings as lengths;    *)
(*   SpecDurable the reporter's buffers and batch files and the checkpoint *)
(*               across the processes of one session.                      *)
(***************************************************************************)
EXTENDS Integers, Sequences, FiniteSets, TLC

VARIABLES
    \* ---- _fetch_checks_with_filter (one call) ----
    max_pages,      \* the max_pages argument
    page_count,     \* page_count
    next_url,       \* next_url: 0 is None, k > 0 is the nextLink returned with page k
    retries,        \* retries
    all_checks,     \* all_checks, as the sequence of backend pages whose items it holds
    all_len,        \* len(all_checks)
    fpc,            \* "loop" while inside the while loop, "returned" after a return
    result,         \* the returned dict (NoResult before the return)
    last_response,  \* the response of the latest request
    req_page,       \* the backend page the latest request asked for (0: none yet)
    n_requests,     \* requests.get calls made by this call
    n_sleeps,       \* backoff sleeps made by this call
    only429,        \* every response so far was HTTP 429
    b_total,        \* backend: items in the pages it has served so far
    b_last,         \* backend: it has served the page that carries no nextLink
    \* ---- get_checks_for_account (one call) and what it calls ----
    args,                      \* parsed arguments: risk_levels, status_filter, all
    population,                \* backend: the checks it holds
    official_services_cache,   \* _official_services_cache
    cpc,                       \* "begin", "fan_out" (inside fetch_services_concurrently), "done"
    status_requests,           \* status_requests
    status_i,                  \* index of the status the for loop is at
    account_checks,            \* all_checks of get_checks_for_account
    requests_made,             \* requests_made
    sub_state,                 \* per service: the state of its future
    sub_result,                \* per service: what fetch_service_data returned
    all_items,                 \* all_items of fetch_services_concurrently
    services_with_data,        \* services_with_data
    services_hitting_limits,   \* services_hitting_limits
    services_with_errors,      \* services_with_errors
    service_discovery_stats,   \* the global dict of that name
    discovered_services,       \* the global set of that name
    account_result,            \* what get_checks_for_account returned
    failed_accounts,           \* progress_tracker.failed_accounts
    queries,                   \* every sub-query issued: status, kind, service
    fetch_hit,                 \* <<status, service>> whose paged fetch returned hit_limit
    fetch_log,                 \* per finished sub-query: status, service, what the fetch did
    \* ---- processes of the script and the checkpoint files ----
    clock,                     \* wall clock, in seconds
    files,                     \* per session id: the file progress_<session_id>.json
    rpc,                       \* the process: "off", "started", "processing", "exited", "crashed"
    run_no,                    \* processes started so far
    resume,                    \* args.resume of the process
    session_id,                \* session_id of the process
    completed_accounts,        \* progress_tracker.completed_accounts
    total_checks,              \* progress_tracker.total_checks
    job,                       \* per account: the state of its future in main
    job_result,                \* per account: what get_checks_for_account returned
    queried,                   \* accounts the process has issued checks queries for
    prior_completed,           \* completed accounts in the checkpoint a crashed process left
    prior_crashed,             \* the previous process crashed
    has_token,                 \* the process was given an API token
    listed,                    \* what get_accounts returned: "none" (not called), "nothing", "accounts"
    interrupted,               \* KeyboardInterrupt was raised in the main thread
    at_interrupt,              \* the marked and queried accounts when it was raised
    exit_status,               \* exit status of the process; -1 while it has none
    \* ---- process_checks_for_account and the StreamingReporter ----
    batch_size,                \* args.batch_size
    pending,                   \* the checks process_checks_for_account has yet to visit
    processed,                 \* the checks it has visited
    streaming_reporter,        \* the reporter: its two buffers and two batch counters
    output_dir,                \* report_data_<session_id>: the batch files, by batch number
    report,                    \* compliance_report_<session_id>.xlsx: its two sheets
    rep_pc,                    \* "idle", "processing", "finalized"
    \* ---- the threads of one process inside ProgressTracker ----
    th_pc,                     \* per thread: "idle", "added" (set updated), "dumped" (data built)
    th_data,                   \* per thread: the local `data` of save_progress
    to_mark,                   \* accounts whose future has not led to a mark yet
    \* ---- _deduplicate_checks applied to a list, and to its own output ----
    checks_in,                 \* the checks argument
    deduplicated,              \* _deduplicate_checks(checks)
    deduplicated_again,        \* _deduplicate_checks of that
    dd_pc,                     \* "input", "once", "twice"
    \* ---- threads calling rate_limiter.handle_rate_limit ----
    h_retries,                 \* per thread: the retries argument
    h_pc,                      \* per thread: "call", "locked" (sleeping inside the lock), "returned"
    h_returned,                \* per thread: the value returned
    h_sleeps,                  \* per thread: time.sleep calls made by the call
    rate_limit_lock,           \* rate_limiter.rate_limit_lock: the thread holding it, 0 if free
    \* ---- account workers calling _get_official_service_list ----
    cat_pc,                    \* per worker: "call", "missed" (saw no cache), "responded", "returned"
    cat_response,              \* per worker: the endpoint answered 200 to its request
    cat_list,                  \* per worker: the list its latest call returned
    cat_calls,                 \* per worker: calls it has finished
    catalog_requests,          \* requests.get calls to the service-catalog endpoint
    \* ---- the sub-queries of concurrently processed accounts ----
    sq_state,                  \* per account worker and sub-query: "queued", "waiting", "in_flight", "done"
    request_semaphore,         \* service_concurrency_manager.request_semaphore: free permits
    \* ---- the threads inside fetch_service_data: _rate_limit, then the paged fetch ----
    clock_ms,                  \* time.time(), in milliseconds
    last_request_time,         \* service_concurrency_manager.last_request_time
    request_lock,              \* service_concurrency_manager.request_lock: its holder, 0 if free
    lim_pc,                    \* per thread: "start", "sleeping", "awake", "fetching", "done"
    lim_wake,                  \* per thread: the time its time.sleep ends
    req_times,                 \* per thread: the times of its checks requests
    stamps,                    \* the values last_request_time was set to
    \* ---- account workers updating service_discovery_stats and discovered_services ----
    st_pending,                \* accounts submitted to the pool and not yet started
    st_pc,                     \* per worker: "idle", "chunking", "status", "count", "add", "discover"
    st_account,                \* per worker: the name of the account it collects
    st_found,                  \* per worker: result['services_with_data'] of its account
    st_hit,                    \* per worker: result['services_hitting_limits'] is not empty
    st_read,                   \* per worker: the value of accounts_chunked its += 1 has read
    st_ran,                    \* the accounts whose collection has passed the += 1
    \* ---- one call of _get_unknown_services; a string is modelled by its length ----
    uf_pc,                     \* "call", "sent" (the catch-all query went out), "skipped"
    uf_base,                   \* len(base_filter)
    uf_known,                  \* known_services: the lengths of the names, in order
    uf_tries,                  \* the exclusion filters built: [excluded, length]
    uf_sent,                   \* the filters handed to _fetch_checks_with_filter
    uf_unknown,                \* the catalog positions of the services reported as unknown (0: none of the catalog)
    \* ---- the reporter and the checkpoint across the processes of one session ----
    dur_pc,                    \* "running", "crashed", "finalized"
    dur_batch_size,            \* args.batch_size
    dur_reporter,              \* streaming_reporter of the running process
    dur_dir,                   \* the batch files in report_data_<session_id>
    dur_completed,             \* progress_tracker.completed_accounts of the running process
    dur_saved,                 \* completed_accounts in the progress file
    dur_streamed,              \* accounts whose records were streamed and that are not marked yet
    dur_runs                   \* processes started

fetchVars == <<max_pages, page_count, next_url, retries, all_checks, all_len, fpc,
               result, last_response, req_page, n_requests, n_sleeps, only429,
               b_total, b_last>>

chunkVars == <<args, population, official_services_cache, cpc, status_requests,
               status_i, account_checks, requests_made, sub_state, sub_result,
               all_items, services_with_data, services_hitting_limits,
               services_with_errors, service_discovery_stats, discovered_services,
               account_result, failed_accounts, queries, fetch_hit, fetch_log>>

runVars == <<clock, files, rpc, run_no, resume, session_id, completed_accounts,
             total_checks, job, job_result, queried, prior_completed, prior_crashed,
             has_token, listed, interrupted, at_interrupt, exit_status>>

\* The run variables that only the start, the interrupt and the exit of a process set
exitVars == <<has_token, listed, interrupted, at_interrupt, exit_status>>

reportVars == <<batch_size, pending, processed, streaming_reporter, output_dir, report,
                rep_pc>>

trackerVars == <<th_pc, th_data, to_mark>>

dedupVars == <<checks_in, deduplicated, deduplicated_again, dd_pc>>

\* The variables of the specifications that model one function or one object alone
handlerVars == <<h_retries, h_pc, h_returned, h_sleeps, rate_limit_lock>>

catalogVars == <<cat_pc, cat_response, cat_list, cat_calls, catalog_requests>>

serviceVars == <<sq_state, request_semaphore>>

limiterVars == <<clock_ms, last_request_time, request_lock, lim_pc, lim_wake, req_times,
                 stamps>>

statsVars == <<st_pending, st_pc, st_account, st_found, st_hit, st_read, st_ran>>

filterVars == <<uf_pc, uf_base, uf_known, uf_tries, uf_sent, uf_unknown>>

durableVars == <<dur_pc, dur_batch_size, dur_reporter, dur_dir, dur_completed, dur_saved,
                 dur_streamed, dur_runs>>

extraVars == <<statsVars, filterVars, durableVars>>

auxVars == <<dedupVars, handlerVars, catalogVars, serviceVars, limiterVars, extraVars>>

vars == <<fetchVars, chunkVars, runVars, reportVars, trackerVars, auxVars>>

-----------------------------------------------------------------------------
(* Program constants *)

\* RateLimitHandler.__init__(max_retries=5), constructed with the default
max_retries == 5

\* params['top']: the page size asked of the API
top == 200

\* the 10K result ceiling tested after a page with a nextLink
Ceiling == 10000

\* "close to 10K" threshold tested after a page without nextLink
NearCeiling == 9800

\* Values of the max_pages parameter: 50 (the default, passed by fetch_service_data),
\* 10 (passed by _get_unknown_services), and 5, a value of the parameter that no
\* caller in this file passes, equal to max_retries.
MaxPagesValues == {5, 10, 50}

\* HTTP status codes the backend answers with
RetryableByDesign == {429, 502, 503, 504}
NonRetryable4xx == {403, 404}
ErrorStatusCodes == RetryableByDesign \cup NonRetryable4xx

\* Item counts of one page (at most top)
PageSizes == {0, 100, top}

NoError == "none"
NoResult == [success |-> FALSE, items |-> <<>>, len |-> 0, hit_limit |-> FALSE,
             error |-> "not_returned"]
NoResponse == [kind |-> "none", code |-> 0]
HttpResponse(code) == [kind |-> "http", code |-> code]
ExceptionResponse == [kind |-> "exception", code |-> 0]

-----------------------------------------------------------------------------
(* RateLimitHandler.handle_rate_limit: the returned boolean; the action that  *)
(* calls it accounts for the sleep it performs when it returns True.          *)
handle_rate_limit_late(r) == ~(r > max_retries)
handle_rate_limit(r) == ~(r >= max_retries)

\* except RequestException: "if retries < rate_limiter.max_retries"
exception_may_retry(r) == r < max_retries

\* likely_hit_limit with a digit of the threshold dropped
likely_hit_limit_980(n) == n >= 980

\* "if len(all_checks) >= 9800" on a page without nextLink
likely_hit_limit(n) == n >= NearCeiling

\* "if len(all_checks) >= 10000" on a page with nextLink
reached_limit(n) == n >= Ceiling

\* The loop test letting one more iteration through
loop_condition_one_more(pc, mp) == pc <= mp

\* "while page_count < max_pages"
loop_condition(pc, mp) == pc < mp

\* The statements after the loop without the max-pages test
max_pages_reached_ignored(pc, mp) == FALSE

\* "if page_count >= max_pages: hit_limit = True" after the loop
max_pages_reached(pc, mp) == pc >= mp

\* The page a request asks for: checks_url (first page) when next_url is None,
\* otherwise the page the nextLink points to.
requested_page(url) == url + 1

\* url_after_retry when the retry path resets next_url to None
url_after_retry_reset(url) == 0

\* The URL used by the request that follows a retry ("continue" leaves next_url alone)
url_after_retry(url) == url

\* f'http_{response.status_code}'
http_error_name(code) == "http_" \o ToString(code)

\* return {'success': False, 'items': [], 'error': ...}
error_result(e) ==
    [success |-> FALSE, items |-> <<>>, len |-> 0, hit_limit |-> FALSE, error |-> e]

\* http_error_result when the status is swallowed and an empty success returned
http_error_result_swallowed(code) ==
    [success |-> TRUE, items |-> <<>>, len |-> 0, hit_limit |-> FALSE, error |-> NoError]

\* the return for a non-retryable status code
http_error_result(code) == error_result(http_error_name(code))

\* success_result when the returned dict carries no hit_limit
success_result_no_flag(items, n, hl, pc, mp) ==
    [success |-> TRUE, items |-> items, len |-> n, hit_limit |-> FALSE, error |-> NoError]

\* The statements after the loop: the max-pages test and the success return
success_result(items, n, hl, pc, mp) ==
    [success |-> TRUE, items |-> items, len |-> n,
     hit_limit |-> (hl \/ max_pages_reached(pc, mp)), error |-> NoError]

\* Whether status code c takes the "elif response.status_code == 429" branch
is_rate_limit_status(c) == c = 429

-----------------------------------------------------------------------------
(* The backend's checks and the checks query *)

\* args.timeframe (default)
timeframe == 7

\* the factor by which the created-date range of a SUCCESS query is widened
SuccessRangeFactor == 10

\* most checks the backend population holds
MaxChecks == 2

\* args.service_workers: the width of the service thread pool and semaphore
service_workers == 2

\* The account get_checks_for_account is called for
Account == [id |-> "acct-1", name |-> "prod"]

AllRiskLevels == <<"LOW", "MEDIUM", "HIGH", "VERY_HIGH", "EXTREME">>

\* --risk-levels: the default, a single level, and all five
RiskSelections == { <<"MEDIUM", "HIGH", "VERY_HIGH", "EXTREME">>, <<"HIGH">>, AllRiskLevels }

\* the status filter derived from --all / --failures / --successes
StatusFilters == {"all", "failures", "successes"}

\* The service catalog the endpoint returns, and the head of the hard-coded
\* fallback list ('EC2', 'S3', ...)
ApiServices == <<"EC2", "RDS">>
FallbackServices == <<"EC2", "S3">>
AllServices == {"EC2", "S3", "RDS", "NewSvc"}

Check(i, a, st, rl, svc, c) ==
    [id |-> i, accountId |-> a, status |-> st, riskLevel |-> rl, service |-> svc,
     created |-> c]

\* The checks a backend may hold; created is the age of createdDateTime in days
Universe ==
    { Check(1, "acct-1", "FAILURE", "HIGH", "EC2", 3),
      Check(2, "acct-1", "FAILURE", "LOW", "EC2", 5),
      Check(3, "acct-1", "FAILURE", "HIGH", "NewSvc", 3),
      Check(4, "acct-1", "SUCCESS", "MEDIUM", "S3", 60),
      Check(5, "acct-2", "FAILURE", "HIGH", "EC2", 3),
      Check(6, "acct-1", "FAILURE", "EXTREME", "RDS", 100) }

Populations == { P \in SUBSET Universe : Cardinality(P) <= MaxChecks }

ToSet(seq) == { seq[i] : i \in 1..Len(seq) }

\* The checks of S as a list, by ascending id: the order the backend serves them in
RECURSIVE ById(_)
ById(S) ==
    IF S = {} THEN <<>>
    ELSE LET c == CHOOSE x \in S : \A y \in S : x.id <= y.id
         IN <<c>> \o ById(S \ {c})

\* base_filter_conditions of get_checks_for_account: accountId, and the risk levels
\* unless all five are selected
base_filter_conditions(account_id, risk_levels) ==
    [accountId |-> account_id,
     riskFiltered |-> Len(risk_levels) < 5,
     riskLevels |-> ToSet(risk_levels)]

\* status_filter_conditions = base + status; fetch_service_data adds service eq
service_filter(base, status, service) ==
    [accountId |-> base.accountId, riskFiltered |-> base.riskFiltered,
     riskLevels |-> base.riskLevels, status |-> status, service |-> service]

\* The created-date range if a SUCCESS query were sent the range of a FAILURE query
date_range_days_narrow(filter) == timeframe

\* The created-date range _fetch_checks_with_filter sends, in days back from now
date_range_days(filter) ==
    IF filter.status = "SUCCESS" THEN timeframe * SuccessRangeFactor ELSE timeframe

\* Whether the backend returns check c for the filter and date range
Matches(c, filter, days) ==
    /\ c.accountId = filter.accountId
    /\ filter.riskFiltered => c.riskLevel \in filter.riskLevels
    /\ c.status = filter.status
    /\ c.service = filter.service
    /\ c.created <= days

BackendAnswer(pop, filter) ==
    ById({ c \in pop : Matches(c, filter, date_range_days(filter)) })

\* What _fetch_checks_with_filter can return for a query whose full answer is M:
\* success with hit_limit false (every page arrived), success with hit_limit true and
\* the pages fetched so far, or an error with no items.
FetchOutcomes(M) ==
    { [success |-> TRUE, items |-> M, hit_limit |-> FALSE, error |-> NoError] }
    \cup { [success |-> TRUE, items |-> SubSeq(M, 1, k), hit_limit |-> TRUE,
            error |-> NoError] : k \in 0..Len(M) }
    \cup { [success |-> FALSE, items |-> <<>>, hit_limit |-> FALSE,
            error |-> "rate_limit_exceeded"] }

\* ServiceConcurrencyManager.fetch_service_data: its return for fetch result r
fetch_service_data(service, status_type, r) ==
    IF r.success /\ r.items # <<>>
    THEN [service |-> service, items |-> r.items, hit_limit |-> r.hit_limit,
          status_type |-> status_type, error |-> NoError]
    ELSE [service |-> service, items |-> <<>>, hit_limit |-> FALSE,
          status_type |-> status_type,
          error |-> IF r.error = NoError THEN "no_data" ELSE r.error]

\* ... and its return when the fetch raises
fetch_service_data_raised(service, status_type) ==
    [service |-> service, items |-> <<>>, hit_limit |-> FALSE,
     status_type |-> status_type, error |-> "exception"]

\* The value of check.get('id'): NoId is None (no id, or a null one), FalsyId is an
\* id that is present and falsy (the empty string, the number 0), k > 0 is any other
NoId == -1
FalsyId == 0

\* the truth value Python gives to check_id
truthy(check_id) == check_id > 0

\* seen_ids.add(check_id)
seen_ids_after_forgotten(seen_ids, check_id) == seen_ids
seen_ids_after(seen_ids, check_id) == seen_ids \cup {check_id}

\* the elif branch: a check whose id is falsy is appended
without_id_dropped(check) == <<>>
without_id(check) == <<check>>

\* _deduplicate_checks: the for loop over checks[k..] with seen_ids as it stands
RECURSIVE dedup_from(_, _)
dedup_from(checks, seen_ids) ==
    IF checks = <<>> THEN <<>>
    ELSE LET check == Head(checks)
             check_id == check.id
         IN IF truthy(check_id) /\ check_id \notin seen_ids
            THEN <<check>> \o dedup_from(Tail(checks), seen_ids_after(seen_ids, check_id))
            ELSE IF ~truthy(check_id)
            THEN without_id(check) \o dedup_from(Tail(checks), seen_ids)
            ELSE dedup_from(Tail(checks), seen_ids)

\* the list back to front
RECURSIVE reversed(_)
reversed(l) == IF l = <<>> THEN <<>> ELSE reversed(Tail(l)) \o <<Head(l)>>

_deduplicate_checks_reversed(checks) == reversed(dedup_from(checks, {}))
_deduplicate_checks(checks) == dedup_from(checks, {})

\* f"{account_name} ({status})"
limit_entry(account_name, status) == <<account_name, status>>

\* status_requests of get_checks_for_account
status_requests_of(a) ==
    IF a.all THEN <<"FAILURE", "SUCCESS">>
    ELSE IF a.status_filter = "failures" THEN <<"FAILURE">>
    ELSE <<"SUCCESS">>

\* A paged fetch that raised instead of returning
RaisedFetch == [success |-> FALSE, items |-> <<>>, hit_limit |-> FALSE, error |-> "exception"]

NoSubResult == [service |-> "", items |-> <<>>, hit_limit |-> FALSE, status_type |-> "",
                error |-> NoError]
NoCache == [fetched |-> FALSE, list |-> <<>>]
NoAccountResult == [returned |-> FALSE, items |-> <<>>, error |-> NoError]

-----------------------------------------------------------------------------
(* One call of get_checks_for_account (not resuming) *)

ChunkInit ==
    /\ \E rl \in RiskSelections, sf \in StatusFilters :
           args = [risk_levels |-> rl, status_filter |-> sf, all |-> (sf = "all")]
    /\ population \in Populations
    /\ official_services_cache = NoCache
    /\ cpc = "begin"
    /\ status_requests = status_requests_of(args)
    /\ status_i = 1
    /\ account_checks = <<>>
    /\ requests_made = <<>>
    /\ sub_state = [s \in AllServices |-> "none"]
    /\ sub_result = [s \in AllServices |-> NoSubResult]
    /\ all_items = <<>>
    /\ services_with_data = <<>>
    /\ services_hitting_limits = <<>>
    /\ services_with_errors = <<>>
    /\ service_discovery_stats =
           [accounts_chunked |-> 0, known_services_found |-> {},
            unknown_services_found |-> {}, accounts_hitting_limits |-> <<>>]
    /\ discovered_services = {}
    /\ account_result = NoAccountResult
    /\ failed_accounts = {}
    /\ queries = {}
    /\ fetch_hit = {}
    /\ fetch_log = {}

\* The chunk variables while only a fetch is modelled
ChunkIdle ==
    /\ args = [risk_levels |-> AllRiskLevels, status_filter |-> "failures", all |-> FALSE]
    /\ population = {}
    /\ official_services_cache = NoCache
    /\ cpc = "idle"
    /\ status_requests = <<>>
    /\ status_i = 0
    /\ account_checks = <<>>
    /\ requests_made = <<>>
    /\ sub_state = [s \in AllServices |-> "none"]
    /\ sub_result = [s \in AllServices |-> NoSubResult]
    /\ all_items = <<>>
    /\ services_with_data = <<>>
    /\ services_hitting_limits = <<>>
    /\ services_with_errors = <<>>
    /\ service_discovery_stats =
           [accounts_chunked |-> 0, known_services_found |-> {},
            unknown_services_found |-> {}, accounts_hitting_limits |-> <<>>]
    /\ discovered_services = {}
    /\ account_result = NoAccountResult
    /\ failed_accounts = {}
    /\ queries = {}
    /\ fetch_hit = {}
    /\ fetch_log = {}

CurrentStatus == status_requests[status_i]

StatusFilter == base_filter_conditions(Account.id, args.risk_levels)

\* _get_official_service_list: the cached list, else the endpoint's list when it
\* answers 200, else the fallback list; the result is cached
official_service_list(cache, api_ok) ==
    IF cache.fetched THEN cache.list
    ELSE IF api_ok THEN ApiServices ELSE FallbackServices

\* The sub-queries issued were only the first catalog service asked for
sub_queries_first(services) == {Head(services)}

\* The sub-queries _get_checks_with_comprehensive_service_chunking issues for a
\* catalog: one per catalog service
sub_queries(services) == ToSet(services)

\* The start of one pass of the status loop, up to the submission of every service
\* request to the executor of fetch_services_concurrently
BeginStatus(api_ok) ==
    /\ cpc = "begin"
    /\ LET services == official_service_list(official_services_cache, api_ok)
       IN /\ official_services_cache' = [fetched |-> TRUE, list |-> services]
          /\ sub_state' = [s \in AllServices |->
                              IF s \in sub_queries(services) THEN "pending" ELSE "none"]
    /\ sub_result' = [s \in AllServices |-> NoSubResult]
    /\ all_items' = <<>>
    /\ services_with_data' = <<>>
    /\ services_hitting_limits' = <<>>
    /\ services_with_errors' = <<>>
    /\ cpc' = "fan_out"
    /\ UNCHANGED <<args, population, status_requests, status_i, account_checks,
                   requests_made, service_discovery_stats, discovered_services,
                   account_result, failed_accounts, queries, fetch_hit, fetch_log>>

Running == { s \in AllServices : sub_state[s] = "running" }

\* A pool thread takes a submitted request: fetch_service_data starts
StartSub(s) ==
    /\ cpc = "fan_out"
    /\ sub_state[s] = "pending"
    /\ Cardinality(Running) < service_workers
    /\ sub_state' = [sub_state EXCEPT ![s] = "running"]
    /\ queries' = queries \cup {[status |-> CurrentStatus, kind |-> "service",
                                 service |-> s]}
    /\ UNCHANGED <<args, population, official_services_cache, cpc, status_requests,
                   status_i, account_checks, requests_made, sub_result, all_items,
                   services_with_data, services_hitting_limits, services_with_errors,
                   service_discovery_stats, discovered_services, account_result,
                   failed_accounts, fetch_hit, fetch_log>>

\* fetch_service_data returns: the paged fetch returned r
FinishSub(s, r) ==
    /\ cpc = "fan_out"
    /\ sub_state[s] = "running"
    /\ sub_state' = [sub_state EXCEPT ![s] = "done"]
    /\ sub_result' = [sub_result EXCEPT ![s] = fetch_service_data(s, CurrentStatus, r)]
    /\ fetch_hit' = IF r.success /\ r.hit_limit
                    THEN fetch_hit \cup {<<CurrentStatus, s>>} ELSE fetch_hit
    /\ fetch_log' = fetch_log \cup {[status |-> CurrentStatus, service |-> s, fetch |-> r]}
    /\ UNCHANGED <<args, population, official_services_cache, cpc, status_requests,
                   status_i, account_checks, requests_made, all_items,
                   services_with_data, services_hitting_limits, services_with_errors,
                   service_discovery_stats, discovered_services, account_result,
                   failed_accounts, queries>>

\* fetch_service_data returns from its except clause
RaiseSub(s) ==
    /\ cpc = "fan_out"
    /\ sub_state[s] = "running"
    /\ sub_state' = [sub_state EXCEPT ![s] = "done"]
    /\ sub_result' = [sub_result EXCEPT ![s] = fetch_service_data_raised(s, CurrentStatus)]
    /\ fetch_log' = fetch_log \cup {[status |-> CurrentStatus, service |-> s,
                                      fetch |-> RaisedFetch]}
    /\ UNCHANGED <<args, population, official_services_cache, cpc, status_requests,
                   status_i, account_checks, requests_made, all_items,
                   services_with_data, services_hitting_limits, services_with_errors,
                   service_discovery_stats, discovered_services, account_result,
                   failed_accounts, queries, fetch_hit>>

\* all_items after a result without items is collected, were the failure to discard
\* what the siblings delivered
items_after_failure_discarded(items) == <<>>

\* all_items after a result without items is collected: the elif branch leaves it alone
items_after_failure(items) == items

\* One pass of the as_completed loop of fetch_services_concurrently
Collect(s) ==
    /\ cpc = "fan_out"
    /\ sub_state[s] = "done"
    /\ sub_state' = [sub_state EXCEPT ![s] = "collected"]
    /\ LET r == sub_result[s]
       IN IF r.items # <<>>
          THEN /\ all_items' = all_items \o r.items
               /\ services_with_data' = Append(services_with_data, s)
               /\ services_hitting_limits' =
                      IF r.hit_limit THEN Append(services_hitting_limits, s)
                      ELSE services_hitting_limits
               /\ services_with_errors' = services_with_errors
          ELSE /\ services_with_errors' =
                      IF r.error # NoError THEN Append(services_with_errors, s)
                      ELSE services_with_errors
               /\ all_items' = items_after_failure(all_items)
               /\ UNCHANGED <<services_with_data, services_hitting_limits>>
    /\ UNCHANGED <<args, population, official_services_cache, cpc, status_requests,
                   status_i, account_checks, requests_made, sub_result,
                   service_discovery_stats, discovered_services, account_result,
                   failed_accounts, queries, fetch_hit, fetch_log>>

\* accounts_hitting_limits after _get_checks_with_comprehensive_service_chunking and
\* after the status loop body of get_checks_for_account: each appends an entry when
\* services_hitting_limits is not empty
record_limits(limits, hitting, account_name, status) ==
    IF hitting # <<>>
    THEN Append(Append(limits, limit_entry(account_name, status)),
                limit_entry(account_name, status))
    ELSE limits

\* The items get_checks_for_account returns
combined_checks(checks) == _deduplicate_checks(checks)

\* fetch_services_concurrently returns; the rest of
\* _get_checks_with_comprehensive_service_chunking and of the status loop body runs,
\* and after the last status the rest of get_checks_for_account
FanOutReturn ==
    /\ cpc = "fan_out"
    /\ \A s \in AllServices : sub_state[s] \in {"none", "collected"}
    /\ LET checks == account_checks \o all_items
           stats1 == [service_discovery_stats EXCEPT
                        !.known_services_found = @ \cup ToSet(services_with_data),
                        !.accounts_hitting_limits =
                            record_limits(@, services_hitting_limits, Account.name,
                                          CurrentStatus)]
       IN /\ account_checks' = checks
          /\ requests_made' = Append(requests_made, CurrentStatus)
          /\ IF status_i < Len(status_requests)
             THEN /\ status_i' = status_i + 1
                  /\ cpc' = "begin"
                  /\ service_discovery_stats' = stats1
                  /\ UNCHANGED <<discovered_services, account_result, failed_accounts>>
             ELSE /\ status_i' = status_i
                  /\ cpc' = "done"
                  /\ service_discovery_stats' =
                         [stats1 EXCEPT !.accounts_chunked = @ + 1]
                  /\ IF checks # <<>>
                     THEN /\ account_result' =
                                 [returned |-> TRUE, items |-> combined_checks(checks),
                                  error |-> NoError]
                          /\ discovered_services' = discovered_services \cup
                                 { c.service : c \in ToSet(combined_checks(checks)) }
                          /\ failed_accounts' = failed_accounts
                     ELSE /\ account_result' =
                                 [returned |-> TRUE, items |-> <<>>,
                                  error |-> "all_status_requests_failed"]
                          /\ failed_accounts' = failed_accounts \cup {Account.id}
                          /\ discovered_services' = discovered_services
    /\ UNCHANGED <<args, population, official_services_cache, status_requests,
                   sub_state, sub_result, all_items, services_with_data,
                   services_hitting_limits, services_with_errors, queries, fetch_hit, fetch_log>>

-----------------------------------------------------------------------------
(* Processes of the script, the checkpoint files and the account loop of main *)

\* last second of the wall clock
MaxClock == 1

\* most processes started
MaxRuns == 2

\* args.max_workers: the width of the account thread pool
max_workers == 2

\* included records of an account that returned checks
MaxIncluded == 1

\* The ids of the accounts the listing endpoint returns
Accounts == {"A", "B", "C"}

SessionIds == 0..MaxClock

NoFile == [exists |-> FALSE, completed_accounts |-> {}, failed_accounts |-> {},
           total_checks |-> 0]

NoJobResult == [kind |-> "none"]

NoInterrupt == [completed_accounts |-> {}, failed_accounts |-> {}, queried |-> {}]

\* parse_arguments with the token missing, were the check for it left out
token_missing_ignored(token) == FALSE

\* parse_arguments: neither --token nor TMV1_TOKEN gives a token
token_missing(token) == ~token

\* session_id = datetime.now().strftime('%Y%m%d_%H%M%S'): the clock, to the second
session_id_at(now) == now

\* ProgressTracker.load_progress: the state after __init__ for the file found
load_progress(file) ==
    IF file.exists
    THEN [completed_accounts |-> file.completed_accounts,
          failed_accounts |-> file.failed_accounts,
          total_checks |-> file.total_checks]
    ELSE [completed_accounts |-> {}, failed_accounts |-> {}, total_checks |-> 0]

\* ProgressTracker.save_progress: the file written for the in-memory state
save_progress(completed, failed, total) ==
    [exists |-> TRUE, completed_accounts |-> completed, failed_accounts |-> failed,
     total_checks |-> total]

\* ProgressTracker.is_completed
is_completed(account_id, completed) == account_id \in completed

\* accounts_to_process of main
accounts_to_process(accounts_info, res, completed) ==
    IF res THEN { a \in accounts_info : ~is_completed(a, completed) }
    ELSE accounts_info

RunInit ==
    /\ clock = 0
    /\ files = [sid \in SessionIds |-> NoFile]
    /\ rpc = "off"
    /\ run_no = 0
    /\ resume = FALSE
    /\ session_id = 0
    /\ completed_accounts = {}
    /\ total_checks = 0
    /\ job = [a \in Accounts |-> "none"]
    /\ job_result = [a \in Accounts |-> NoJobResult]
    /\ queried = {}
    /\ prior_completed = {}
    /\ prior_crashed = FALSE
    /\ has_token = TRUE
    /\ listed = "none"
    /\ interrupted = FALSE
    /\ at_interrupt = NoInterrupt
    /\ exit_status = -1

\* The clock advances. Only the start of a process reads it, so the seconds that
\* pass while a process runs are folded into those that pass between processes.
Tick ==
    /\ rpc \in {"off", "exited", "crashed"}
    /\ clock < MaxClock
    /\ clock' = clock + 1
    /\ UNCHANGED <<files, rpc, run_no, resume, session_id, completed_accounts,
                   total_checks, job, job_result, queried, prior_completed,
                   prior_crashed, failed_accounts, exitVars>>

\* A process starts: parse_arguments, which ends the process with status 2 when no
\* token is given, then the module-level statements up to the call of main
\* (session_id, ProgressTracker(session_id) and its load_progress)
StartProcess(res, token) ==
    /\ rpc \in {"off", "exited", "crashed"}
    /\ run_no < MaxRuns
    /\ run_no' = run_no + 1
    /\ resume' = res
    /\ has_token' = token
    /\ prior_crashed' = (rpc = "crashed")
    /\ job' = [a \in Accounts |-> "none"]
    /\ job_result' = [a \in Accounts |-> NoJobResult]
    /\ queried' = {}
    /\ listed' = "none"
    /\ interrupted' = FALSE
    /\ at_interrupt' = NoInterrupt
    /\ IF token_missing(token)
       THEN /\ rpc' = "exited"
            /\ exit_status' = 2
            /\ completed_accounts' = {}
            /\ failed_accounts' = {}
            /\ total_checks' = 0
            /\ session_id' = session_id
       ELSE /\ rpc' = "started"
            /\ exit_status' = -1
            /\ session_id' = session_id_at(clock)
            /\ LET loaded == load_progress(files[session_id_at(clock)])
               IN /\ completed_accounts' = loaded.completed_accounts
                  /\ failed_accounts' = loaded.failed_accounts
                  /\ total_checks' = loaded.total_checks
    /\ UNCHANGED <<clock, files, prior_completed>>

\* main up to the submission of the account jobs; accounts_info is what get_accounts
\* returned ({} stands for None and for the empty list)
MainBegin(accounts_info) ==
    /\ rpc = "started"
    /\ LET todo == accounts_to_process(accounts_info, resume, completed_accounts)
       IN IF accounts_info = {} \/ todo = {}
          THEN /\ rpc' = "exited"
               /\ exit_status' = 0
               /\ job' = job
          ELSE /\ rpc' = "processing"
               /\ exit_status' = exit_status
               /\ job' = [a \in Accounts |-> IF a \in todo THEN "queued" ELSE "none"]
    /\ listed' = IF accounts_info = {} THEN "nothing" ELSE "accounts"
    /\ UNCHANGED <<clock, files, run_no, resume, session_id, completed_accounts,
                   total_checks, job_result, queried, prior_completed, prior_crashed,
                   failed_accounts, has_token, interrupted, at_interrupt>>

RunningJobs == { a \in Accounts : job[a] = "running" }

\* A pool thread starts get_checks_for_account for an account: the resume skip, or
\* the start of data collection
WorkerStart(a) ==
    /\ rpc \in {"processing", "draining"}
    /\ job[a] = "queued"
    /\ Cardinality(RunningJobs) < max_workers
    /\ IF resume /\ is_completed(a, completed_accounts)
       THEN /\ job' = [job EXCEPT ![a] = "returned"]
            /\ job_result' = [job_result EXCEPT ![a] = [kind |-> "skipped"]]
            /\ queried' = queried
       ELSE /\ job' = [job EXCEPT ![a] = "running"]
            /\ job_result' = job_result
            /\ queried' = queried \cup {a}
    /\ UNCHANGED <<clock, files, rpc, run_no, resume, session_id, completed_accounts,
                   total_checks, prior_completed, prior_crashed, failed_accounts,
                   exitVars>>

\* get_checks_for_account returns checks
WorkerReturnsItems(a) ==
    /\ rpc \in {"processing", "draining"}
    /\ job[a] = "running"
    /\ job' = [job EXCEPT ![a] = "returned"]
    /\ job_result' = [job_result EXCEPT ![a] = [kind |-> "items"]]
    /\ UNCHANGED <<clock, files, rpc, run_no, resume, session_id, completed_accounts,
                   total_checks, queried, prior_completed, prior_crashed,
                   failed_accounts,
                   exitVars>>

\* get_checks_for_account collected no checks: it calls mark_failed and returns the
\* error 'all_status_requests_failed'
WorkerReturnsEmpty(a) ==
    /\ rpc \in {"processing", "draining"}
    /\ job[a] = "running"
    /\ job' = [job EXCEPT ![a] = "returned"]
    /\ job_result' = [job_result EXCEPT ![a] = [kind |-> "error"]]
    /\ failed_accounts' = failed_accounts \cup {a}
    /\ files' = [files EXCEPT ![session_id] =
                    save_progress(completed_accounts, failed_accounts', total_checks)]
    /\ UNCHANGED <<clock, rpc, run_no, resume, session_id, completed_accounts,
                   total_checks, queried, prior_completed, prior_crashed,
                   exitVars>>

\* get_checks_for_account raises
WorkerRaises(a) ==
    /\ rpc \in {"processing", "draining"}
    /\ job[a] = "running"
    /\ job' = [job EXCEPT ![a] = "returned"]
    /\ job_result' = [job_result EXCEPT ![a] = [kind |-> "raised"]]
    /\ UNCHANGED <<clock, files, rpc, run_no, resume, session_id, completed_accounts,
                   total_checks, queried, prior_completed, prior_crashed,
                   failed_accounts,
                   exitVars>>

\* One pass of the as_completed loop of main: process_checks_for_account streams
\* `included` records, then mark_completed unless the result carries an error;
\* mark_failed when future.result() raised
MainCollect(a, included) ==
    /\ rpc = "processing"
    /\ job[a] = "returned"
    /\ job' = [job EXCEPT ![a] = "handled"]
    /\ LET r == job_result[a]
           n == IF r.kind = "items" THEN included ELSE 0
       IN /\ r.kind # "items" => included = 0
          /\ IF r.kind = "raised"
             THEN /\ failed_accounts' = failed_accounts \cup {a}
                  /\ UNCHANGED <<completed_accounts, total_checks>>
                  /\ files' = [files EXCEPT ![session_id] =
                                  save_progress(completed_accounts, failed_accounts',
                                                total_checks)]
             ELSE IF r.kind = "error"
             THEN UNCHANGED <<failed_accounts, completed_accounts, total_checks, files>>
             ELSE /\ completed_accounts' = completed_accounts \cup {a}
                  /\ total_checks' = total_checks + n
                  /\ failed_accounts' = failed_accounts
                  /\ files' = [files EXCEPT ![session_id] =
                                  save_progress(completed_accounts', failed_accounts,
                                                total_checks')]
    /\ UNCHANGED <<clock, rpc, run_no, resume, session_id, job_result, queried,
                   prior_completed, prior_crashed,
                   exitVars>>

\* The rest of main after the account loop: the final report, then
\* progress_tracker.cleanup()
MainFinish ==
    /\ rpc = "processing"
    /\ \A a \in Accounts : job[a] \in {"none", "handled"}
    /\ files' = [files EXCEPT ![session_id] = NoFile]
    /\ rpc' = "exited"
    /\ exit_status' = 0
    /\ UNCHANGED <<clock, run_no, resume, session_id, completed_accounts, total_checks,
                   job, job_result, queried, prior_completed, prior_crashed,
                   failed_accounts, has_token, listed, interrupted, at_interrupt>>

\* The process dies (kill, power loss): its memory is lost, its files stay
Crash ==
    /\ rpc \in {"started", "processing", "draining"}
    /\ rpc' = "crashed"
    /\ prior_completed' = files[session_id].completed_accounts
    /\ completed_accounts' = {}
    /\ failed_accounts' = {}
    /\ total_checks' = 0
    /\ job' = [a \in Accounts |-> "none"]
    /\ job_result' = [a \in Accounts |-> NoJobResult]
    /\ queried' = {}
    /\ UNCHANGED <<clock, files, run_no, resume, session_id, prior_crashed, exitVars>>

\* KeyboardInterrupt is raised in the main thread while main runs. It is no Exception,
\* so the except clause of the account loop lets it pass; it leaves the with block of
\* the executor, whose __exit__ is shutdown(wait=True): the main thread joins the pool
\* threads, which first run every job submitted, the queued ones too.
Interrupt ==
    /\ rpc \in {"started", "processing"}
    /\ rpc' = "draining"
    /\ interrupted' = TRUE
    /\ at_interrupt' = [completed_accounts |-> completed_accounts,
                        failed_accounts |-> failed_accounts, queried |-> queried]
    /\ UNCHANGED <<clock, files, run_no, resume, session_id, completed_accounts,
                   total_checks, job, job_result, queried, prior_completed,
                   prior_crashed, failed_accounts, has_token, listed, exit_status>>

\* The except KeyboardInterrupt clause at the top level, reached once the pool has
\* shut down: save_progress, then the script ends (no sys.exit: status 0)
HandleInterrupt ==
    /\ rpc = "draining"
    /\ \A a \in Accounts : job[a] \notin {"queued", "running"}
    /\ files' = [files EXCEPT ![session_id] =
                    save_progress(completed_accounts, failed_accounts, total_checks)]
    /\ rpc' = "exited"
    /\ exit_status' = 0
    /\ UNCHANGED <<clock, run_no, resume, session_id, completed_accounts, total_checks,
                   job, job_result, queried, prior_completed, prior_crashed,
                   failed_accounts, has_token, listed, interrupted, at_interrupt>>

-----------------------------------------------------------------------------
(* process_checks_for_account and the StreamingReporter of one process *)

\* most checks handed to process_checks_for_account in a run
MaxRecords == 3

\* --batch-size
BatchSizes == {1, 2}

\* A check as process_checks_for_account reads it: the four date fields are ages in
\* days, -1 standing for a field that is absent or does not parse
ReportCheck(i, st, res, disc, supd, upd) ==
    [id |-> i, status |-> st, resolvedDateTime |-> res,
     failureDiscoveredDateTime |-> disc, statusUpdatedDateTime |-> supd,
     updatedDateTime |-> upd]

ReportUniverse ==
    { ReportCheck(1, "FAILURE", -1, 3, 3, 3),
      ReportCheck(2, "FAILURE", -1, -1, -1, 30),
      ReportCheck(3, "SUCCESS", 3, 40, 3, 3),
      ReportCheck(4, "SUCCESS", -1, 3, 3, 3),
      ReportCheck(5, "FAILURE", -1, 30, -1, 3),
      ReportCheck(6, "SUCCESS", 30, 40, 30, 30) }

\* The lists of at most n checks, no check twice (_deduplicate_checks has run on the
\* checks of an account, and the records of two accounts differ in account_id)
RECURSIVE CheckLists(_)
CheckLists(n) ==
    IF n = 0 THEN { <<>> }
    ELSE LET shorter == CheckLists(n - 1)
             longest == { s \in shorter : Len(s) = n - 1 }
         IN shorter \cup UNION { { Append(l, c) : c \in ReportUniverse \ ToSet(l) } :
                                   l \in longest }

\* filter_start <= date <= filter_end for a date field of the given age
in_timeframe(age) == age >= 0 /\ age <= timeframe

\* include_check of process_checks_for_account
include_check(check) ==
    IF check.status = "SUCCESS" THEN in_timeframe(check.resolvedDateTime)
    ELSE IF check.status = "FAILURE"
    THEN \/ in_timeframe(check.failureDiscoveredDateTime)
         \/ in_timeframe(check.statusUpdatedDateTime)
         \/ in_timeframe(check.updatedDateTime)
    ELSE FALSE

\* The record built for a check
record_of(check) == [check_id |-> check.id, status |-> check.status]

\* to_csv(filename): the directory after the file of batch number n is written
write_csv(batch_files, n, records) ==
    IF n + 1 <= Len(batch_files) THEN [batch_files EXCEPT ![n + 1] = records]
    ELSE Append(batch_files, records)

\* The buffer after a flush that leaves the written records in it
buffer_after_flush_kept(buffer) == buffer

\* buffer.clear()
buffer_after_flush(buffer) == <<>>

\* StreamingReporter._flush_failures
_flush_failures(rep, dir) ==
    IF rep.failures_buffer # <<>>
    THEN [rep |-> [rep EXCEPT !.failures_buffer = buffer_after_flush(@),
                              !.failures_batch = @ + 1],
          dir |-> [dir EXCEPT !.failures =
                      write_csv(@, rep.failures_batch, rep.failures_buffer)]]
    ELSE [rep |-> rep, dir |-> dir]

\* StreamingReporter._flush_successes
_flush_successes(rep, dir) ==
    IF rep.successes_buffer # <<>>
    THEN [rep |-> [rep EXCEPT !.successes_buffer = buffer_after_flush(@),
                              !.successes_batch = @ + 1],
          dir |-> [dir EXCEPT !.successes =
                      write_csv(@, rep.successes_batch, rep.successes_buffer)]]
    ELSE [rep |-> rep, dir |-> dir]

\* StreamingReporter.add_record
add_record(rep, dir, record, status, size) ==
    IF status = "FAILURE"
    THEN LET r1 == [rep EXCEPT !.failures_buffer = Append(@, record)]
         IN IF Len(r1.failures_buffer) >= size THEN _flush_failures(r1, dir)
            ELSE [rep |-> r1, dir |-> dir]
    ELSE IF status = "SUCCESS"
    THEN LET r1 == [rep EXCEPT !.successes_buffer = Append(@, record)]
         IN IF Len(r1.successes_buffer) >= size THEN _flush_successes(r1, dir)
            ELSE [rep |-> r1, dir |-> dir]
    ELSE [rep |-> rep, dir |-> dir]

\* pd.concat of the batch files read back
RECURSIVE concat(_)
concat(batch_files) ==
    IF batch_files = <<>> THEN <<>>
    ELSE Head(batch_files) \o concat(Tail(batch_files))

NoReport == [written |-> FALSE, Failures |-> <<>>, Successes |-> <<>>]

\* StreamingReporter.__init__ with an empty output directory
NewReporter ==
    [failures_batch |-> 0, successes_batch |-> 0, failures_buffer |-> <<>>,
     successes_buffer |-> <<>>]

EmptyDir == [failures |-> <<>>, successes |-> <<>>]

ReportInit ==
    /\ batch_size \in BatchSizes
    /\ pending \in CheckLists(MaxRecords)
    /\ processed = <<>>
    /\ streaming_reporter = NewReporter
    /\ output_dir = EmptyDir
    /\ report = NoReport
    /\ rep_pc = "processing"

\* The report variables while no report is modelled
ReportIdle ==
    /\ batch_size = 1
    /\ pending = <<>>
    /\ processed = <<>>
    /\ streaming_reporter = NewReporter
    /\ output_dir = EmptyDir
    /\ report = NoReport
    /\ rep_pc = "idle"

\* One pass of the for loop of process_checks_for_account
ProcessCheck ==
    /\ rep_pc = "processing"
    /\ pending # <<>>
    /\ LET check == Head(pending)
           status == check.status
           after == IF include_check(check)
                    THEN add_record(streaming_reporter, output_dir, record_of(check),
                                    status, batch_size)
                    ELSE [rep |-> streaming_reporter, dir |-> output_dir]
       IN /\ streaming_reporter' = after.rep
          /\ output_dir' = after.dir
          /\ processed' = Append(processed, check)
          /\ pending' = Tail(pending)
    /\ UNCHANGED <<batch_size, report, rep_pc>>

\* StreamingReporter.finalize, called by main after the last account
Finalize ==
    /\ rep_pc = "processing"
    /\ pending = <<>>
    /\ LET f == _flush_failures(streaming_reporter, output_dir)
           s == _flush_successes(f.rep, f.dir)
       IN /\ streaming_reporter' = s.rep
          /\ report' = [written |-> TRUE, Failures |-> concat(s.dir.failures),
                        Successes |-> concat(s.dir.successes)]
          /\ output_dir' = EmptyDir
    /\ rep_pc' = "finalized"
    /\ UNCHANGED <<batch_size, pending, processed>>

-----------------------------------------------------------------------------
(* The threads of one process inside ProgressTracker: the main thread (0) marks   *)
(* accounts completed or failed in its as_completed loop, the threads of the      *)
(* account pool (1..max_workers) mark accounts failed in get_checks_for_account.  *)
(* ProgressTracker holds no lock, so the statements of two calls interleave.      *)

MainThread == 0
TrackerThreads == 0..max_workers

TrackerInit ==
    /\ clock = 0
    /\ files = [sid \in SessionIds |-> NoFile]
    /\ rpc = "processing"
    /\ run_no = 1
    /\ resume = FALSE
    /\ session_id = 0
    /\ completed_accounts = {}
    /\ total_checks = 0
    /\ job = [a \in Accounts |-> "none"]
    /\ job_result = [a \in Accounts |-> NoJobResult]
    /\ queried = {}
    /\ prior_completed = {}
    /\ prior_crashed = FALSE
    /\ has_token = TRUE
    /\ listed = "none"
    /\ interrupted = FALSE
    /\ at_interrupt = NoInterrupt
    /\ exit_status = -1
    /\ th_pc = [t \in TrackerThreads |-> "idle"]
    /\ th_data = [t \in TrackerThreads |-> NoFile]
    /\ to_mark = Accounts

\* The tracker variables while the marks are taken as single steps
TrackerIdle ==
    /\ th_pc = [t \in TrackerThreads |-> "idle"]
    /\ th_data = [t \in TrackerThreads |-> NoFile]
    /\ to_mark = {}

\* mark_completed up to its call of save_progress (main thread only)
MarkCompleted(account_id, check_count) ==
    /\ th_pc[MainThread] = "idle"
    /\ account_id \in to_mark
    /\ completed_accounts' = completed_accounts \cup {account_id}
    /\ total_checks' = total_checks + check_count
    /\ th_pc' = [th_pc EXCEPT ![MainThread] = "added"]
    /\ to_mark' = to_mark \ {account_id}
    /\ UNCHANGED <<clock, files, rpc, run_no, resume, session_id, job, job_result,
                   queried, prior_completed, prior_crashed, failed_accounts, th_data,
                   exitVars>>

\* mark_failed up to its call of save_progress (any thread)
MarkFailed(t, account_id) ==
    /\ th_pc[t] = "idle"
    /\ account_id \in to_mark
    /\ failed_accounts' = failed_accounts \cup {account_id}
    /\ th_pc' = [th_pc EXCEPT ![t] = "added"]
    /\ to_mark' = to_mark \ {account_id}
    /\ UNCHANGED <<clock, files, rpc, run_no, resume, session_id, completed_accounts,
                   total_checks, job, job_result, queried, prior_completed,
                   prior_crashed, th_data,
                   exitVars>>

\* save_progress: data = {...}
SaveProgressData(t) ==
    /\ th_pc[t] = "added"
    /\ th_data' = [th_data EXCEPT ![t] =
                      save_progress(completed_accounts, failed_accounts, total_checks)]
    /\ th_pc' = [th_pc EXCEPT ![t] = "dumped"]
    /\ UNCHANGED <<clock, files, rpc, run_no, resume, session_id, completed_accounts,
                   total_checks, job, job_result, queried, prior_completed,
                   prior_crashed, failed_accounts, to_mark,
                   exitVars>>

\* save_progress: the file is opened for writing and data is dumped into it
SaveProgressWrite(t) ==
    /\ th_pc[t] = "dumped"
    /\ files' = [files EXCEPT ![session_id] = th_data[t]]
    /\ th_pc' = [th_pc EXCEPT ![t] = "idle"]
    /\ UNCHANGED <<clock, rpc, run_no, resume, session_id, completed_accounts,
                   total_checks, job, job_result, queried, prior_completed,
                   prior_crashed, failed_accounts, th_data, to_mark,
                   exitVars>>

-----------------------------------------------------------------------------
(* One account from the backend to the report: get_checks_for_account with every *)
(* sub-query fetched completely, then process_checks_for_account and finalize.    *)

\* most checks the backend holds for the account
MaxWindow == 3

\* A check with the fields both the backend filter and process_checks_for_account
\* read; created and the four date fields are ages in days, -1 an absent field
WindowCheck(i, st, c, res, disc, supd, upd) ==
    [id |-> i, accountId |-> Account.id, status |-> st, riskLevel |-> "HIGH",
     service |-> "EC2", created |-> c, resolvedDateTime |-> res,
     failureDiscoveredDateTime |-> disc, statusUpdatedDateTime |-> supd,
     updatedDateTime |-> upd]

WindowUniverse ==
    { WindowCheck(1, "FAILURE", 3, -1, 3, 3, 3),
      WindowCheck(2, "FAILURE", 60, -1, 3, 3, 3),
      WindowCheck(3, "FAILURE", 60, -1, 60, 60, 60),
      WindowCheck(4, "FAILURE", 5, -1, -1, 2, 2),
      WindowCheck(5, "SUCCESS", 60, 3, 40, 3, 3),
      WindowCheck(6, "SUCCESS", 60, 30, 40, 30, 30),
      WindowCheck(7, "SUCCESS", 100, 3, 90, 3, 3),
      WindowCheck(8, "SUCCESS", 3, -1, -1, -1, 3) }

WindowPopulations == { P \in SUBSET WindowUniverse : Cardinality(P) <= MaxWindow }

\* --risk-levels HIGH VERY_HIGH EXTREME
WindowRiskLevels == <<"HIGH", "VERY_HIGH", "EXTREME">>

WindowInit ==
    /\ \E sf \in StatusFilters :
           args = [risk_levels |-> WindowRiskLevels, status_filter |-> sf,
                   all |-> (sf = "all")]
    /\ population \in WindowPopulations
    /\ official_services_cache = NoCache
    /\ cpc = "window"
    /\ status_requests = status_requests_of(args)
    /\ status_i = 1
    /\ account_checks = <<>>
    /\ requests_made = <<>>
    /\ sub_state = [s \in AllServices |-> "none"]
    /\ sub_result = [s \in AllServices |-> NoSubResult]
    /\ all_items = <<>>
    /\ services_with_data = <<>>
    /\ services_hitting_limits = <<>>
    /\ services_with_errors = <<>>
    /\ service_discovery_stats =
           [accounts_chunked |-> 0, known_services_found |-> {},
            unknown_services_found |-> {}, accounts_hitting_limits |-> <<>>]
    /\ discovered_services = {}
    /\ account_result = NoAccountResult
    /\ failed_accounts = {}
    /\ queries = {}
    /\ fetch_hit = {}
    /\ fetch_log = {}
    /\ batch_size \in BatchSizes
    /\ pending = <<>>
    /\ processed = <<>>
    /\ streaming_reporter = NewReporter
    /\ output_dir = EmptyDir
    /\ report = NoReport
    /\ rep_pc = "idle"

\* The items of the status requests from index i on, each the items of its
\* per-service sub-queries over the catalog, every fetch complete
RECURSIVE services_items(_, _)
services_items(status, services) ==
    IF services = <<>> THEN <<>>
    ELSE BackendAnswer(population, service_filter(StatusFilter, status, Head(services)))
         \o services_items(status, Tail(services))

RECURSIVE statuses_items(_)
statuses_items(statuses) ==
    IF statuses = <<>> THEN <<>>
    ELSE services_items(Head(statuses), ApiServices) \o statuses_items(Tail(statuses))

\* get_checks_for_account, and main handing its items to process_checks_for_account
GetChecks ==
    /\ cpc = "window"
    /\ rep_pc = "idle"
    /\ LET checks == statuses_items(status_requests)
       IN IF checks # <<>>
          THEN /\ account_result' = [returned |-> TRUE, items |-> combined_checks(checks),
                                    error |-> NoError]
               /\ discovered_services' =
                      { c.service : c \in ToSet(combined_checks(checks)) }
               /\ failed_accounts' = failed_accounts
               /\ pending' = combined_checks(checks)
          ELSE /\ account_result' = [returned |-> TRUE, items |-> <<>>,
                                    error |-> "all_status_requests_failed"]
               /\ discovered_services' = discovered_services
               /\ failed_accounts' = failed_accounts \cup {Account.id}
               /\ pending' = <<>>
    /\ requests_made' = status_requests
    /\ rep_pc' = "processing"
    /\ UNCHANGED <<args, population, official_services_cache, cpc, status_requests,
                   status_i, account_checks, sub_state, sub_result, all_items,
                   services_with_data, services_hitting_limits, services_with_errors,
                   service_discovery_stats, queries, fetch_hit, fetch_log,
                   batch_size, processed, streaming_reporter, output_dir, report>>

-----------------------------------------------------------------------------
(* _deduplicate_checks alone: a list of checks, deduplicated once and again *)

MaxLen == 3

DedupIds == {NoId, FalsyId, 1, 2}

\* A check as _deduplicate_checks sees it: its id, and a tag that tells apart two
\* records with the same id
DedupCheck(i, t) == [id |-> i, tag |-> t]

DedupChecks == {DedupCheck(i, t) : i \in DedupIds, t \in {"a", "b"}}

\* every list of at most n checks
RECURSIVE ListsUpTo(_)
ListsUpTo(n) ==
    IF n = 0 THEN {<<>>}
    ELSE LET shorter == ListsUpTo(n - 1)
         IN shorter \cup {Append(l, c) : l \in {x \in shorter : Len(x) = n - 1},
                                         c \in DedupChecks}

DedupInit ==
    /\ checks_in \in ListsUpTo(MaxLen)
    /\ deduplicated = <<>>
    /\ deduplicated_again = <<>>
    /\ dd_pc = "input"

DedupIdle ==
    /\ checks_in = <<>>
    /\ deduplicated = <<>>
    /\ deduplicated_again = <<>>
    /\ dd_pc = "idle"

\* deduplicated = _deduplicate_checks(checks)
Deduplicate ==
    /\ dd_pc = "input"
    /\ deduplicated' = _deduplicate_checks(checks_in)
    /\ dd_pc' = "once"
    /\ UNCHANGED <<checks_in, deduplicated_again>>

\* the function applied to its own output
DeduplicateAgain ==
    /\ dd_pc = "once"
    /\ deduplicated_again' = _deduplicate_checks(deduplicated)
    /\ dd_pc' = "twice"
    /\ UNCHANGED <<checks_in, deduplicated>>

-----------------------------------------------------------------------------
(* Threads calling rate_limiter.handle_rate_limit, each with its own retries *)

\* largest retries argument tried
MaxAttempt == 7

\* the threads of a service pool
HandlerThreads == 1..service_workers

HandlerInit ==
    /\ h_retries \in [HandlerThreads -> 0..MaxAttempt]
    /\ h_pc = [t \in HandlerThreads |-> "call"]
    /\ h_returned = [t \in HandlerThreads |-> "none"]
    /\ h_sleeps = [t \in HandlerThreads |-> 0]
    /\ rate_limit_lock = 0

HandlerIdle ==
    /\ h_retries = [t \in HandlerThreads |-> 0]
    /\ h_pc = [t \in HandlerThreads |-> "idle"]
    /\ h_returned = [t \in HandlerThreads |-> "none"]
    /\ h_sleeps = [t \in HandlerThreads |-> 0]
    /\ rate_limit_lock = 0

\* "if retries >= self.max_retries: return False"
HandleGiveUp(t) ==
    /\ h_pc[t] = "call"
    /\ ~handle_rate_limit(h_retries[t])
    /\ h_returned' = [h_returned EXCEPT ![t] = FALSE]
    /\ h_pc' = [h_pc EXCEPT ![t] = "returned"]
    /\ UNCHANGED <<h_retries, h_sleeps, rate_limit_lock>>

\* "with self.rate_limit_lock:" entered
HandleLock(t) ==
    /\ h_pc[t] = "call"
    /\ handle_rate_limit(h_retries[t])
    /\ rate_limit_lock = 0
    /\ rate_limit_lock' = t
    /\ h_pc' = [h_pc EXCEPT ![t] = "locked"]
    /\ UNCHANGED <<h_retries, h_returned, h_sleeps>>

\* time.sleep(sleep_time), the lock released, "return True"
HandleSleep(t) ==
    /\ h_pc[t] = "locked"
    /\ rate_limit_lock = t
    /\ h_sleeps' = [h_sleeps EXCEPT ![t] = @ + 1]
    /\ rate_limit_lock' = 0
    /\ h_returned' = [h_returned EXCEPT ![t] = TRUE]
    /\ h_pc' = [h_pc EXCEPT ![t] = "returned"]
    /\ UNCHANGED h_retries

-----------------------------------------------------------------------------
(* The account workers of one run calling _get_official_service_list, once per  *)
(* status request of the account they process; the function takes no lock.      *)

\* most calls one worker makes
MaxCalls == 2

\* the threads of the account pool
AccountWorkers == 1..max_workers

CatalogInit ==
    /\ cat_pc = [w \in AccountWorkers |-> "call"]
    /\ cat_response = [w \in AccountWorkers |-> FALSE]
    /\ cat_list = [w \in AccountWorkers |-> <<>>]
    /\ cat_calls = [w \in AccountWorkers |-> 0]
    /\ catalog_requests = 0

CatalogIdle ==
    /\ cat_pc = [w \in AccountWorkers |-> "idle"]
    /\ cat_response = [w \in AccountWorkers |-> FALSE]
    /\ cat_list = [w \in AccountWorkers |-> <<>>]
    /\ cat_calls = [w \in AccountWorkers |-> 0]
    /\ catalog_requests = 0

\* The chunk variables other than the cache
chunkButCacheVars == <<args, population, cpc, status_requests, status_i, account_checks,
                       requests_made, sub_state, sub_result, all_items,
                       services_with_data, services_hitting_limits,
                       services_with_errors, service_discovery_stats,
                       discovered_services, account_result, failed_accounts, queries,
                       fetch_hit, fetch_log>>

\* "if _official_services_cache is not None: return _official_services_cache"
CatalogLookup(w) ==
    /\ cat_pc[w] = "call"
    /\ IF official_services_cache.fetched
       THEN /\ cat_list' = [cat_list EXCEPT ![w] = official_services_cache.list]
            /\ cat_calls' = [cat_calls EXCEPT ![w] = @ + 1]
            /\ cat_pc' = [cat_pc EXCEPT ![w] = "returned"]
       ELSE /\ cat_pc' = [cat_pc EXCEPT ![w] = "missed"]
            /\ UNCHANGED <<cat_list, cat_calls>>
    /\ UNCHANGED <<cat_response, catalog_requests, official_services_cache>>

\* requests.get(services_url): a 200 answer when api_ok, another status or an
\* exception otherwise
CatalogRequest(w, api_ok) ==
    /\ cat_pc[w] = "missed"
    /\ catalog_requests' = catalog_requests + 1
    /\ cat_response' = [cat_response EXCEPT ![w] = api_ok]
    /\ cat_pc' = [cat_pc EXCEPT ![w] = "responded"]
    /\ UNCHANGED <<cat_list, cat_calls, official_services_cache>>

\* the list is cached and returned: the endpoint's, or the fallback list
CatalogStore(w) ==
    /\ cat_pc[w] = "responded"
    /\ LET services == official_service_list(NoCache, cat_response[w])
       IN /\ official_services_cache' = [fetched |-> TRUE, list |-> services]
          /\ cat_list' = [cat_list EXCEPT ![w] = services]
    /\ cat_calls' = [cat_calls EXCEPT ![w] = @ + 1]
    /\ cat_pc' = [cat_pc EXCEPT ![w] = "returned"]
    /\ UNCHANGED <<cat_response, catalog_requests>>

\* the worker's next status request, or its next account
CatalogCallAgain(w) ==
    /\ cat_pc[w] = "returned"
    /\ cat_calls[w] < MaxCalls
    /\ cat_pc' = [cat_pc EXCEPT ![w] = "call"]
    /\ UNCHANGED <<cat_response, cat_list, cat_calls, catalog_requests,
                   official_services_cache>>

-----------------------------------------------------------------------------
(* fetch_services_concurrently called by every account worker at once: each call *)
(* has its own thread pool, all calls share service_concurrency_manager and its   *)
(* request_semaphore.                                                              *)

\* the sub-queries of one account: one more than its pool has threads
SubQueries == 1..(service_workers + 1)

\* The sub-queries of account worker w in the given state
InState(w, st) == { q \in SubQueries : sq_state[w][q] = st }

\* The sub-queries of w that hold a permit of the semaphore
InFlight(w) == InState(w, "in_flight")

ServiceInit ==
    /\ sq_state = [w \in AccountWorkers |-> [q \in SubQueries |-> "queued"]]
    /\ request_semaphore = service_workers

ServiceIdle ==
    /\ sq_state = [w \in AccountWorkers |-> [q \in SubQueries |-> "idle"]]
    /\ request_semaphore = service_workers

\* a thread of the account's pool takes the sub-query and calls fetch_service_data
PoolStart(w, q) ==
    /\ sq_state[w][q] = "queued"
    /\ Cardinality(InState(w, "waiting") \cup InFlight(w)) < service_workers
    /\ sq_state' = [sq_state EXCEPT ![w][q] = "waiting"]
    /\ UNCHANGED request_semaphore

\* "with self.request_semaphore:" entered
SemaphoreAcquire(w, q) ==
    /\ sq_state[w][q] = "waiting"
    /\ request_semaphore > 0
    /\ request_semaphore' = request_semaphore - 1
    /\ sq_state' = [sq_state EXCEPT ![w][q] = "in_flight"]

\* fetch_service_data returns and the with block releases the permit
SemaphoreRelease(w, q) ==
    /\ sq_state[w][q] = "in_flight"
    /\ request_semaphore' = request_semaphore + 1
    /\ sq_state' = [sq_state EXCEPT ![w][q] = "done"]

-----------------------------------------------------------------------------
(* The threads that hold a permit of request_semaphore: each calls _rate_limit    *)
(* once and then _fetch_checks_with_filter, which requests page after page.       *)

\* rate_limit_delay, in milliseconds
rate_limit_delay == 50

\* the step of the clock, in milliseconds
TimeStep == 25

\* time.time() when the first thread starts, and the time the clock stops at
StartTime == 100
MaxTime == 200

\* most checks requests of one sub-query
MaxPageRequests == 2

LimiterThreads == 1..service_workers

LimiterInit ==
    /\ clock_ms = StartTime
    /\ last_request_time = 0
    /\ request_lock = 0
    /\ lim_pc = [t \in LimiterThreads |-> "start"]
    /\ lim_wake = [t \in LimiterThreads |-> 0]
    /\ req_times = [t \in LimiterThreads |-> <<>>]
    /\ stamps = <<>>

LimiterIdle ==
    /\ clock_ms = StartTime
    /\ last_request_time = 0
    /\ request_lock = 0
    /\ lim_pc = [t \in LimiterThreads |-> "idle"]
    /\ lim_wake = [t \in LimiterThreads |-> 0]
    /\ req_times = [t \in LimiterThreads |-> <<>>]
    /\ stamps = <<>>

\* time passes
TimePasses ==
    /\ clock_ms < MaxTime
    /\ clock_ms' = clock_ms + TimeStep
    /\ UNCHANGED <<last_request_time, request_lock, lim_pc, lim_wake, req_times, stamps>>

\* _rate_limit: the lock is taken, the time read and compared with
\* last_request_time; time.sleep(sleep_time) is called when the call came too early
RateLimitEnter(t) ==
    /\ lim_pc[t] = "start"
    /\ request_lock = 0
    /\ request_lock' = t
    /\ LET current_time == clock_ms
           time_since_last == current_time - last_request_time
       IN IF time_since_last < rate_limit_delay
          THEN /\ lim_wake' = [lim_wake EXCEPT ![t] =
                                  current_time + (rate_limit_delay - time_since_last)]
               /\ lim_pc' = [lim_pc EXCEPT ![t] = "sleeping"]
          ELSE /\ lim_wake' = lim_wake
               /\ lim_pc' = [lim_pc EXCEPT ![t] = "awake"]
    /\ UNCHANGED <<clock_ms, last_request_time, req_times, stamps>>

\* time.sleep returns, no sooner than asked
RateLimitWake(t) ==
    /\ lim_pc[t] = "sleeping"
    /\ clock_ms >= lim_wake[t]
    /\ lim_pc' = [lim_pc EXCEPT ![t] = "awake"]
    /\ UNCHANGED <<clock_ms, last_request_time, request_lock, lim_wake, req_times, stamps>>

\* "self.last_request_time = time.time()", the lock released; fetch_service_data
\* goes on to _fetch_checks_with_filter
RateLimitStamp(t) ==
    /\ lim_pc[t] = "awake"
    /\ request_lock = t
    /\ last_request_time' = clock_ms
    /\ stamps' = Append(stamps, clock_ms)
    /\ request_lock' = 0
    /\ lim_pc' = [lim_pc EXCEPT ![t] = "fetching"]
    /\ UNCHANGED <<clock_ms, lim_wake, req_times>>

\* one pass of the while loop of _fetch_checks_with_filter: requests.get
PageRequest(t) ==
    /\ lim_pc[t] = "fetching"
    /\ Len(req_times[t]) < MaxPageRequests
    /\ req_times' = [req_times EXCEPT ![t] = Append(@, clock_ms)]
    /\ UNCHANGED <<clock_ms, last_request_time, request_lock, lim_pc, lim_wake, stamps>>

\* the fetch returns after at least one request
FetchReturns(t) ==
    /\ lim_pc[t] = "fetching"
    /\ req_times[t] # <<>>
    /\ lim_pc' = [lim_pc EXCEPT ![t] = "done"]
    /\ UNCHANGED <<clock_ms, last_request_time, request_lock, lim_wake, req_times, stamps>>

\* The five groups of variables of the script as a whole
-----------------------------------------------------------------------------
(* The account workers of one process updating the shared statistics. The module  *)
(* holds no lock for service_discovery_stats or discovered_services: set.update,  *)
(* set.add and list.append are single operations of the interpreter, while         *)
(* service_discovery_stats['accounts_chunked'] += 1 reads the entry, adds, and     *)
(* stores the entry, and another thread may run between the read and the store.    *)

\* The services a status request can find data for
StatsServices == {"EC2", "S3"}

StatsInit ==
    /\ st_pending = Accounts
    /\ st_pc = [w \in AccountWorkers |-> "idle"]
    /\ st_account = [w \in AccountWorkers |-> ""]
    /\ st_found = [w \in AccountWorkers |-> {}]
    /\ st_hit = [w \in AccountWorkers |-> FALSE]
    /\ st_read = [w \in AccountWorkers |-> 0]
    /\ st_ran = {}

\* The statistics variables while no pool of account workers is modelled
StatsIdle ==
    /\ st_pending = {}
    /\ st_pc = [w \in AccountWorkers |-> "idle"]
    /\ st_account = [w \in AccountWorkers |-> ""]
    /\ st_found = [w \in AccountWorkers |-> {}]
    /\ st_hit = [w \in AccountWorkers |-> FALSE]
    /\ st_read = [w \in AccountWorkers |-> 0]
    /\ st_ran = {}

\* A free pool thread starts get_checks_for_account for a submitted account
StatsSubmit(w, a) ==
    /\ st_pc[w] = "idle"
    /\ a \in st_pending
    /\ st_pending' = st_pending \ {a}
    /\ st_pc' = [st_pc EXCEPT ![w] = "chunking"]
    /\ st_account' = [st_account EXCEPT ![w] = a]
    /\ UNCHANGED <<st_found, st_hit, st_read, st_ran, service_discovery_stats,
                   discovered_services>>

\* _get_checks_with_comprehensive_service_chunking after the fan-out returned with
\* success: known_services_found.update, then the append for services at the limit
StatsChunking(w, found, hit) ==
    /\ st_pc[w] = "chunking"
    /\ hit => found # {}
    /\ service_discovery_stats' =
           [service_discovery_stats EXCEPT
               !.known_services_found = @ \cup found,
               !.accounts_hitting_limits =
                   IF hit THEN Append(@, limit_entry(st_account[w], "FAILURE")) ELSE @]
    /\ st_found' = [st_found EXCEPT ![w] = found]
    /\ st_hit' = [st_hit EXCEPT ![w] = hit]
    /\ st_pc' = [st_pc EXCEPT ![w] = "status"]
    /\ UNCHANGED <<st_pending, st_account, st_read, st_ran, discovered_services>>

\* The status loop body of get_checks_for_account: its own append
StatsStatus(w) ==
    /\ st_pc[w] = "status"
    /\ service_discovery_stats' =
           [service_discovery_stats EXCEPT
               !.accounts_hitting_limits =
                   IF st_hit[w] THEN Append(@, limit_entry(st_account[w], "FAILURE"))
                   ELSE @]
    /\ st_pc' = [st_pc EXCEPT ![w] = "count"]
    /\ UNCHANGED <<st_pending, st_account, st_found, st_hit, st_read, st_ran,
                   discovered_services>>

\* accounts_chunked += 1: the entry is read
StatsCounterRead(w) ==
    /\ st_pc[w] = "count"
    /\ st_read' = [st_read EXCEPT ![w] = service_discovery_stats.accounts_chunked]
    /\ st_pc' = [st_pc EXCEPT ![w] = "add"]
    /\ UNCHANGED <<st_pending, st_account, st_found, st_hit, st_ran,
                   service_discovery_stats, discovered_services>>

\* accounts_chunked += 1: the sum is stored
StatsCounterWrite(w) ==
    /\ st_pc[w] = "add"
    /\ service_discovery_stats' =
           [service_discovery_stats EXCEPT !.accounts_chunked = st_read[w] + 1]
    /\ st_ran' = st_ran \cup {st_account[w]}
    /\ st_pc' = [st_pc EXCEPT ![w] = "discover"]
    /\ UNCHANGED <<st_pending, st_account, st_found, st_hit, st_read,
                   discovered_services>>

\* The rest of get_checks_for_account: discovered_services.add for the services of
\* the combined checks, and the return
StatsDiscovered(w) ==
    /\ st_pc[w] = "discover"
    /\ discovered_services' = discovered_services \cup st_found[w]
    /\ st_pc' = [st_pc EXCEPT ![w] = "idle"]
    /\ UNCHANGED <<st_pending, st_account, st_found, st_hit, st_read, st_ran,
                   service_discovery_stats>>

-----------------------------------------------------------------------------
(* One call of _get_unknown_services. Only the lengths of the strings matter to   *)
(* the filter it builds, so base_filter is its length and known_services the list *)
(* of the lengths of the service names; a catalog service is named by its          *)
(* position in known_services.                                                     *)

\* if len(exclusion_filter) > 1500
FilterCeiling == 1500

\* known_services[:30]
FirstExclusions == 30

\* the divisor of max_exclusions: the length one exclusion is estimated at
EstimatedCondition == 25

\* the margin subtracted in max_exclusions
EstimateMargin == 10

\* len("not service eq ''")
ConditionOverhead == 17

\* len(' and ')
JoinerLength == 5

\* len(base_filter) for the inputs drawn
FilterBaseLengths == {60, 800, 1400, 1495}

\* len(known_services) and the lengths of the names for the inputs drawn
FilterCatalogSizes == {0, 1, 29, 30, 31, 60}
FilterNameLengths == {3, 8, 25, 40, 60}

\* The catalogs drawn: every name of the same length
FilterCatalogs ==
    { [i \in 1..n |-> l] : n \in FilterCatalogSizes, l \in FilterNameLengths }

Minimum(a, b) == IF a <= b THEN a ELSE b
Maximum(a, b) == IF a >= b THEN a ELSE b

\* known_services[:n]
first_services(known_services, n) == SubSeq(known_services, 1, Minimum(n, Len(known_services)))

RECURSIVE total_length(_)
total_length(lengths) ==
    IF lengths = <<>> THEN 0 ELSE Head(lengths) + total_length(Tail(lengths))

\* len(' and '.join(parts)) for parts of the given lengths
joined_length(lengths) ==
    IF lengths = <<>> THEN 0
    ELSE total_length(lengths) + JoinerLength * (Len(lengths) - 1)

\* len(f"not service eq '{service}'")
condition_length(name_length) == ConditionOverhead + name_length

\* exclusion_filter = base_filter + ' and ' + ' and '.join(exclusion_conditions)
exclusion_filter(base_filter, services_to_exclude) ==
    [excluded |-> Len(services_to_exclude),
     length |-> base_filter + JoinerLength
                + joined_length([i \in 1..Len(services_to_exclude) |->
                                     condition_length(services_to_exclude[i])])]

\* max_exclusions = max(1, (1500 - len(base_filter) - 10) // 25)
max_exclusions(base_filter) ==
    Maximum(1, (FilterCeiling - base_filter - EstimateMargin) \div EstimatedCondition)

too_long(filter) == filter.length > FilterCeiling

\* The exclusion filters _get_unknown_services builds, in order
filters_built(base_filter, known_services) ==
    LET first == exclusion_filter(base_filter, first_services(known_services, FirstExclusions))
        second == exclusion_filter(base_filter,
                                   first_services(known_services, max_exclusions(base_filter)))
    IN IF too_long(first) THEN <<first, second>> ELSE <<first>>

\* The filter the call ends with
last_filter(base_filter, known_services) ==
    LET tries == filters_built(base_filter, known_services) IN tries[Len(tries)]

FilterInit ==
    /\ uf_pc = "call"
    /\ uf_base \in FilterBaseLengths
    /\ uf_known \in FilterCatalogs
    /\ uf_tries = <<>>
    /\ uf_sent = <<>>
    /\ uf_unknown = {}

\* The variables of the call while no call is modelled
FilterIdle ==
    /\ uf_pc = "idle"
    /\ uf_base = 0
    /\ uf_known = <<>>
    /\ uf_tries = <<>>
    /\ uf_sent = <<>>
    /\ uf_unknown = {}

\* The services the backend can answer the catch-all query with: one outside the
\* catalog (0) and the first catalog service the filter does not exclude
Answerable(filter) ==
    {0} \cup (IF filter.excluded < Len(uf_known) THEN {filter.excluded + 1} ELSE {})

\* _get_unknown_services: the filter is built, rebuilt when too long, and either sent
\* to _fetch_checks_with_filter, whose items outside the excluded prefix are the
\* unknown services, or given up
GetUnknownServices(answer) ==
    /\ uf_pc = "call"
    /\ LET tries == filters_built(uf_base, uf_known)
           last == last_filter(uf_base, uf_known)
       IN /\ uf_tries' = tries
          /\ IF too_long(last)
             THEN /\ answer = {}
                  /\ uf_pc' = "skipped"
                  /\ uf_sent' = uf_sent
                  /\ uf_unknown' = uf_unknown
             ELSE /\ answer \subseteq Answerable(last)
                  /\ uf_pc' = "sent"
                  /\ uf_sent' = Append(uf_sent, last)
                  /\ uf_unknown' = { svc \in answer : svc \notin 1..last.excluded }
    /\ UNCHANGED <<uf_base, uf_known>>

-----------------------------------------------------------------------------
(* The reporter and the checkpoint of one session: main streams the records of an *)
(* account to streaming_reporter and then marks the account completed; a process  *)
(* may die, and the next process of the session resumes from the progress file.    *)

\* The included records process_checks_for_account builds for an account
records_of_account(a) ==
    [k \in 1..MaxIncluded |-> [check_id |-> <<a, k>>, status |-> "FAILURE"]]

\* streaming_reporter.add_record for each record, in order
RECURSIVE add_records(_, _, _, _)
add_records(rep, dir, records, size) ==
    IF records = <<>> THEN [rep |-> rep, dir |-> dir]
    ELSE LET after == add_record(rep, dir, Head(records), Head(records).status, size)
         IN add_records(after.rep, after.dir, Tail(records), size)

DurableInit ==
    /\ dur_pc = "running"
    /\ dur_batch_size \in BatchSizes
    /\ dur_reporter = NewReporter
    /\ dur_dir = EmptyDir
    /\ dur_completed = {}
    /\ dur_saved = {}
    /\ dur_streamed = {}
    /\ dur_runs = 1

\* The variables of the session while no session is modelled
DurableIdle ==
    /\ dur_pc = "idle"
    /\ dur_batch_size = 1
    /\ dur_reporter = NewReporter
    /\ dur_dir = EmptyDir
    /\ dur_completed = {}
    /\ dur_saved = {}
    /\ dur_streamed = {}
    /\ dur_runs = 0

\* main: process_checks_for_account for an account whose future returned checks
DurableProcessChecks(a) ==
    /\ dur_pc = "running"
    /\ a \notin dur_completed \cup dur_streamed
    /\ LET after == add_records(dur_reporter, dur_dir, records_of_account(a),
                                dur_batch_size)
       IN /\ dur_reporter' = after.rep
          /\ dur_dir' = after.dir
    /\ dur_streamed' = dur_streamed \cup {a}
    /\ UNCHANGED <<dur_pc, dur_batch_size, dur_completed, dur_saved, dur_runs>>

\* main: progress_tracker.mark_completed for that account, with its save_progress
DurableMarkCompleted(a) ==
    /\ dur_pc = "running"
    /\ a \in dur_streamed
    /\ dur_completed' = dur_completed \cup {a}
    /\ dur_saved' = dur_completed'
    /\ dur_streamed' = dur_streamed \ {a}
    /\ UNCHANGED <<dur_pc, dur_batch_size, dur_reporter, dur_dir, dur_runs>>

\* The process dies: its buffers are lost, the batch files and the progress file stay
DurableCrash ==
    /\ dur_pc = "running"
    /\ dur_pc' = "crashed"
    /\ dur_reporter' = NewReporter
    /\ dur_completed' = {}
    /\ dur_streamed' = {}
    /\ UNCHANGED <<dur_batch_size, dur_dir, dur_saved, dur_runs>>

\* The session is resumed: ProgressTracker loads the progress file, StreamingReporter
\* starts with empty buffers and batch counters at 0 in the same directory, and main
\* leaves out the completed accounts
DurableResume ==
    /\ dur_pc = "crashed"
    /\ dur_runs < MaxRuns
    /\ dur_pc' = "running"
    /\ dur_reporter' = NewReporter
    /\ dur_completed' = dur_saved
    /\ dur_streamed' = {}
    /\ dur_runs' = dur_runs + 1
    /\ UNCHANGED <<dur_batch_size, dur_dir, dur_saved>>

\* main after the account loop: streaming_reporter.finalize flushes both buffers
DurableFinalize ==
    /\ dur_pc = "running"
    /\ dur_streamed = {}
    /\ dur_completed = Accounts
    /\ LET f == _flush_failures(dur_reporter, dur_dir)
           g == _flush_successes(f.rep, f.dir)
       IN /\ dur_reporter' = g.rep
          /\ dur_dir' = g.dir
    /\ dur_pc' = "finalized"
    /\ UNCHANGED <<dur_batch_size, dur_completed, dur_saved, dur_streamed, dur_runs>>

-----------------------------------------------------------------------------
mainVars == <<fetchVars, chunkVars, runVars, reportVars, trackerVars>>

\* The variables of the account statistics, of the catch-all filter and of the session
\* while none of them is modelled
ExtraIdle ==
    /\ StatsIdle
    /\ FilterIdle
    /\ DurableIdle

AuxIdle ==
    /\ DedupIdle
    /\ HandlerIdle
    /\ CatalogIdle
    /\ ServiceIdle
    /\ LimiterIdle
    /\ ExtraIdle

-----------------------------------------------------------------------------
(* One call of _fetch_checks_with_filter *)

FetchInit ==
    /\ max_pages \in MaxPagesValues
    /\ page_count = 0
    /\ next_url = 0
    /\ retries = 0
    /\ all_checks = <<>>
    /\ all_len = 0
    /\ fpc = "loop"
    /\ result = NoResult
    /\ last_response = NoResponse
    /\ req_page = 0
    /\ n_requests = 0
    /\ n_sleeps = 0
    /\ only429 = TRUE
    /\ b_total = 0
    /\ b_last = FALSE

\* What every loop iteration does before the response is looked at
Request(resp) ==
    /\ fpc = "loop"
    /\ loop_condition(page_count, max_pages)
    /\ page_count' = page_count + 1
    /\ req_page' = requested_page(next_url)
    /\ n_requests' = n_requests + 1
    /\ last_response' = resp
    /\ only429' = (only429 /\ resp = HttpResponse(429))

Return(r) ==
    /\ fpc' = "returned"
    /\ result' = r

\* "continue", or falling off the end of the loop body: the loop test is evaluated
\* again, and when it fails the statements after the loop run.
Continue(items, n, hl) ==
    IF loop_condition(page_count', max_pages)
    THEN /\ fpc' = "loop"
         /\ result' = result
    ELSE Return(success_result(items, n, hl, page_count', max_pages))

\* status 200: a page of `size` items, with a nextLink when `more`
Respond200(size, more) ==
    /\ Request(HttpResponse(200))
    /\ ~b_last
    /\ b_total + size <= Ceiling
    /\ b_total' = b_total + size
    /\ b_last' = ~more
    /\ all_checks' = Append(all_checks, requested_page(next_url))
    /\ all_len' = all_len + size
    /\ next_url' = IF more THEN requested_page(next_url) ELSE 0
    /\ n_sleeps' = n_sleeps
    /\ max_pages' = max_pages
    /\ IF ~more
       THEN /\ retries' = retries
            /\ Return(success_result(all_checks', all_len', likely_hit_limit(all_len'),
                                     page_count', max_pages))
       ELSE IF reached_limit(all_len')
       THEN /\ retries' = retries
            /\ Return(success_result(all_checks', all_len', TRUE, page_count', max_pages))
       ELSE /\ retries' = 0
            /\ Continue(all_checks', all_len', FALSE)

\* status 429
Respond429 ==
    /\ Request(HttpResponse(429))
    /\ UNCHANGED <<max_pages, all_checks, all_len, b_total, b_last>>
    /\ IF handle_rate_limit(retries)
       THEN /\ n_sleeps' = n_sleeps + 1
            /\ retries' = retries + 1
            /\ next_url' = url_after_retry(next_url)
            /\ Continue(all_checks, all_len, FALSE)
       ELSE /\ UNCHANGED <<n_sleeps, retries, next_url>>
            /\ Return(error_result("rate_limit_exceeded"))

\* any other status code
RespondHttpError(code) ==
    /\ ~is_rate_limit_status(code)
    /\ Request(HttpResponse(code))
    /\ UNCHANGED <<max_pages, all_checks, all_len, b_total, b_last, n_sleeps, retries,
                   next_url>>
    /\ Return(http_error_result(code))

\* requests.exceptions.RequestException (timeout, connection error)
RespondException ==
    /\ Request(ExceptionResponse)
    /\ UNCHANGED <<max_pages, all_checks, all_len, b_total, b_last>>
    /\ IF exception_may_retry(retries)
       THEN /\ n_sleeps' = n_sleeps + 1
            /\ retries' = retries + 1
            /\ next_url' = url_after_retry(next_url)
            /\ Continue(all_checks, all_len, FALSE)
       ELSE /\ UNCHANGED <<n_sleeps, retries, next_url>>
            /\ Return(error_result("request_exception"))

FetchNext ==
    \/ \E size \in PageSizes, more \in BOOLEAN : Respond200(size, more) /\ UNCHANGED <<chunkVars, runVars, reportVars, trackerVars, auxVars>>
    \/ Respond429 /\ UNCHANGED <<chunkVars, runVars, reportVars, trackerVars, auxVars>>
    \/ \E code \in ErrorStatusCodes : RespondHttpError(code) /\ UNCHANGED <<chunkVars, runVars, reportVars, trackerVars, auxVars>>
    \/ RespondException /\ UNCHANGED <<chunkVars, runVars, reportVars, trackerVars, auxVars>>

InitFetch ==
    /\ FetchInit
    /\ ChunkIdle
    /\ RunInit
    /\ ReportIdle
    /\ TrackerIdle
    /\ AuxIdle

SpecFetch == InitFetch /\ [][FetchNext]_vars

\* The fetch variables while the fetch is summarised by FetchOutcomes
FetchIdle ==
    /\ max_pages = 50
    /\ page_count = 0
    /\ next_url = 0
    /\ retries = 0
    /\ all_checks = <<>>
    /\ all_len = 0
    /\ fpc = "idle"
    /\ result = NoResult
    /\ last_response = NoResponse
    /\ req_page = 0
    /\ n_requests = 0
    /\ n_sleeps = 0
    /\ only429 = TRUE
    /\ b_total = 0
    /\ b_last = FALSE

ChunkNext ==
    \/ \E api_ok \in BOOLEAN : BeginStatus(api_ok) /\ UNCHANGED <<fetchVars, runVars, reportVars, trackerVars, auxVars>>
    \/ \E s \in AllServices : StartSub(s) /\ UNCHANGED <<fetchVars, runVars, reportVars, trackerVars, auxVars>>
    \/ \E s \in AllServices :
          \E r \in FetchOutcomes(BackendAnswer(population,
                                   service_filter(StatusFilter, CurrentStatus, s))) :
              FinishSub(s, r) /\ UNCHANGED <<fetchVars, runVars, reportVars, trackerVars, auxVars>>
    \/ \E s \in AllServices : RaiseSub(s) /\ UNCHANGED <<fetchVars, runVars, reportVars, trackerVars, auxVars>>
    \/ \E s \in AllServices : Collect(s) /\ UNCHANGED <<fetchVars, runVars, reportVars, trackerVars, auxVars>>
    \/ FanOutReturn /\ UNCHANGED <<fetchVars, runVars, reportVars, trackerVars, auxVars>>

InitChunk ==
    /\ ChunkInit
    /\ FetchIdle
    /\ RunInit
    /\ ReportIdle
    /\ TrackerIdle
    /\ AuxIdle

SpecChunk == InitChunk /\ [][ChunkNext]_vars

\* The chunk variables other than failed_accounts
chunkOnlyVars == <<args, population, official_services_cache, cpc, status_requests,
                   status_i, account_checks, requests_made, sub_state, sub_result,
                   all_items, services_with_data, services_hitting_limits,
                   services_with_errors, service_discovery_stats, discovered_services,
                   account_result, queries, fetch_hit, fetch_log>>

RunNext ==
    \/ Tick /\ UNCHANGED <<fetchVars, chunkOnlyVars, reportVars, trackerVars, auxVars>>
    \/ \E res, token \in BOOLEAN :
          StartProcess(res, token) /\ UNCHANGED <<fetchVars, chunkOnlyVars, reportVars, trackerVars, auxVars>>
    \/ \E info \in {{}, Accounts} : MainBegin(info) /\ UNCHANGED <<fetchVars, chunkOnlyVars, reportVars, trackerVars, auxVars>>
    \/ \E a \in Accounts : WorkerStart(a) /\ UNCHANGED <<fetchVars, chunkOnlyVars, reportVars, trackerVars, auxVars>>
    \/ \E a \in Accounts : WorkerReturnsItems(a) /\ UNCHANGED <<fetchVars, chunkOnlyVars, reportVars, trackerVars, auxVars>>
    \/ \E a \in Accounts : WorkerReturnsEmpty(a) /\ UNCHANGED <<fetchVars, chunkOnlyVars, reportVars, trackerVars, auxVars>>
    \/ \E a \in Accounts : WorkerRaises(a) /\ UNCHANGED <<fetchVars, chunkOnlyVars, reportVars, trackerVars, auxVars>>
    \/ \E a \in Accounts, n \in 0..MaxIncluded :
          MainCollect(a, n) /\ UNCHANGED <<fetchVars, chunkOnlyVars, reportVars, trackerVars, auxVars>>
    \/ MainFinish /\ UNCHANGED <<fetchVars, chunkOnlyVars, reportVars, trackerVars, auxVars>>
    \/ Crash /\ UNCHANGED <<fetchVars, chunkOnlyVars, reportVars, trackerVars, auxVars>>
    \/ Interrupt /\ UNCHANGED <<fetchVars, chunkOnlyVars, reportVars, trackerVars, auxVars>>
    \/ HandleInterrupt /\ UNCHANGED <<fetchVars, chunkOnlyVars, reportVars, trackerVars, auxVars>>

InitRun ==
    /\ RunInit
    /\ ChunkIdle
    /\ FetchIdle
    /\ ReportIdle
    /\ TrackerIdle
    /\ AuxIdle

SpecRun == InitRun /\ [][RunNext]_vars

ReportNext ==
    \/ ProcessCheck /\ UNCHANGED <<fetchVars, chunkVars, runVars, trackerVars, auxVars>>
    \/ Finalize /\ UNCHANGED <<fetchVars, chunkVars, runVars, trackerVars, auxVars>>

InitReport ==
    /\ ReportInit
    /\ TrackerIdle
    /\ FetchIdle
    /\ ChunkIdle
    /\ RunInit
    /\ AuxIdle

SpecReport == InitReport /\ [][ReportNext]_vars

TrackerNext ==
    \/ \E a \in Accounts, n \in 0..MaxIncluded :
          MarkCompleted(a, n) /\ UNCHANGED <<fetchVars, chunkOnlyVars, reportVars, auxVars>>
    \/ \E t \in TrackerThreads, a \in Accounts :
          MarkFailed(t, a) /\ UNCHANGED <<fetchVars, chunkOnlyVars, reportVars, auxVars>>
    \/ \E t \in TrackerThreads :
          SaveProgressData(t) /\ UNCHANGED <<fetchVars, chunkOnlyVars, reportVars, auxVars>>
    \/ \E t \in TrackerThreads :
          SaveProgressWrite(t) /\ UNCHANGED <<fetchVars, chunkOnlyVars, reportVars, auxVars>>

InitTracker ==
    /\ TrackerInit
    /\ FetchIdle
    /\ ChunkIdle
    /\ ReportIdle
    /\ AuxIdle

SpecTracker == InitTracker /\ [][TrackerNext]_vars

\* The script's own variables while one function or object is modelled alone
MainIdle ==
    /\ FetchIdle
    /\ ChunkIdle
    /\ RunInit
    /\ ReportIdle
    /\ TrackerIdle

DedupNext ==
    \/ Deduplicate /\ UNCHANGED <<mainVars, handlerVars, catalogVars, serviceVars, limiterVars, extraVars>>
    \/ DeduplicateAgain /\ UNCHANGED <<mainVars, handlerVars, catalogVars, serviceVars, limiterVars, extraVars>>

InitDedup ==
    /\ DedupInit
    /\ MainIdle
    /\ HandlerIdle
    /\ CatalogIdle
    /\ ServiceIdle
    /\ LimiterIdle
    /\ ExtraIdle

SpecDedup == InitDedup /\ [][DedupNext]_vars

WindowNext ==
    \/ GetChecks /\ UNCHANGED <<fetchVars, runVars, trackerVars, auxVars>>
    \/ ProcessCheck /\ UNCHANGED <<fetchVars, chunkVars, runVars, trackerVars, auxVars>>
    \/ Finalize /\ UNCHANGED <<fetchVars, chunkVars, runVars, trackerVars, auxVars>>

InitWindow ==
    /\ WindowInit
    /\ FetchIdle
    /\ RunInit
    /\ TrackerIdle
    /\ AuxIdle

SpecWindow == InitWindow /\ [][WindowNext]_vars

HandlerNext ==
    \/ \E t \in HandlerThreads : HandleGiveUp(t) /\ UNCHANGED <<mainVars, dedupVars, catalogVars, serviceVars, limiterVars, extraVars>>
    \/ \E t \in HandlerThreads : HandleLock(t) /\ UNCHANGED <<mainVars, dedupVars, catalogVars, serviceVars, limiterVars, extraVars>>
    \/ \E t \in HandlerThreads : HandleSleep(t) /\ UNCHANGED <<mainVars, dedupVars, catalogVars, serviceVars, limiterVars, extraVars>>

InitHandler ==
    /\ HandlerInit
    /\ MainIdle
    /\ DedupIdle
    /\ CatalogIdle
    /\ ServiceIdle
    /\ LimiterIdle
    /\ ExtraIdle

SpecHandler == InitHandler /\ [][HandlerNext]_vars

\* Everything but the cache and the catalog variables
catalogOthers == <<fetchVars, chunkButCacheVars, runVars, reportVars, trackerVars,
                   dedupVars, handlerVars, serviceVars, limiterVars, extraVars>>

CatalogNext ==
    \/ \E w \in AccountWorkers : CatalogLookup(w) /\ UNCHANGED catalogOthers
    \/ \E w \in AccountWorkers, api_ok \in BOOLEAN :
          CatalogRequest(w, api_ok) /\ UNCHANGED catalogOthers
    \/ \E w \in AccountWorkers : CatalogStore(w) /\ UNCHANGED catalogOthers
    \/ \E w \in AccountWorkers : CatalogCallAgain(w) /\ UNCHANGED catalogOthers

InitCatalog ==
    /\ CatalogInit
    /\ MainIdle
    /\ DedupIdle
    /\ HandlerIdle
    /\ ServiceIdle
    /\ LimiterIdle
    /\ ExtraIdle

SpecCatalog == InitCatalog /\ [][CatalogNext]_vars

ServiceNext ==
    \/ \E w \in AccountWorkers, q \in SubQueries :
          PoolStart(w, q) /\ UNCHANGED <<mainVars, dedupVars, handlerVars, catalogVars, limiterVars, extraVars>>
    \/ \E w \in AccountWorkers, q \in SubQueries :
          SemaphoreAcquire(w, q) /\ UNCHANGED <<mainVars, dedupVars, handlerVars, catalogVars, limiterVars, extraVars>>
    \/ \E w \in AccountWorkers, q \in SubQueries :
          SemaphoreRelease(w, q) /\ UNCHANGED <<mainVars, dedupVars, handlerVars, catalogVars, limiterVars, extraVars>>

InitService ==
    /\ ServiceInit
    /\ MainIdle
    /\ DedupIdle
    /\ HandlerIdle
    /\ CatalogIdle
    /\ LimiterIdle
    /\ ExtraIdle

SpecService == InitService /\ [][ServiceNext]_vars

\* Everything but the limiter variables
limiterOthers == <<mainVars, dedupVars, handlerVars, catalogVars, serviceVars, extraVars>>

LimiterNext ==
    \/ TimePasses /\ UNCHANGED limiterOthers
    \/ \E t \in LimiterThreads : RateLimitEnter(t) /\ UNCHANGED limiterOthers
    \/ \E t \in LimiterThreads : RateLimitWake(t) /\ UNCHANGED limiterOthers
    \/ \E t \in LimiterThreads : RateLimitStamp(t) /\ UNCHANGED limiterOthers
    \/ \E t \in LimiterThreads : PageRequest(t) /\ UNCHANGED limiterOthers
    \/ \E t \in LimiterThreads : FetchReturns(t) /\ UNCHANGED limiterOthers

InitLimiter ==
    /\ LimiterInit
    /\ MainIdle
    /\ DedupIdle
    /\ HandlerIdle
    /\ CatalogIdle
    /\ ServiceIdle
    /\ ExtraIdle

SpecLimiter == InitLimiter /\ [][LimiterNext]_vars

chunkButStatsVars == <<args, population, official_services_cache, cpc, status_requests,
                       status_i, account_checks, requests_made, sub_state, sub_result,
                       all_items, services_with_data, services_hitting_limits,
                       services_with_errors, account_result, failed_accounts, queries,
                       fetch_hit, fetch_log>>

auxCoreVars == <<dedupVars, handlerVars, catalogVars, serviceVars, limiterVars>>

AuxCoreIdle ==
    /\ DedupIdle
    /\ HandlerIdle
    /\ CatalogIdle
    /\ ServiceIdle
    /\ LimiterIdle

statsOthers == <<fetchVars, chunkButStatsVars, runVars, reportVars, trackerVars,
                 auxCoreVars, filterVars, durableVars>>

StatsNext ==
    \/ \E w \in AccountWorkers, a \in Accounts : StatsSubmit(w, a) /\ UNCHANGED statsOthers
    \/ \E w \in AccountWorkers, found \in SUBSET StatsServices, hit \in BOOLEAN :
          StatsChunking(w, found, hit) /\ UNCHANGED statsOthers
    \/ \E w \in AccountWorkers : StatsStatus(w) /\ UNCHANGED statsOthers
    \/ \E w \in AccountWorkers : StatsCounterRead(w) /\ UNCHANGED statsOthers
    \/ \E w \in AccountWorkers : StatsCounterWrite(w) /\ UNCHANGED statsOthers
    \/ \E w \in AccountWorkers : StatsDiscovered(w) /\ UNCHANGED statsOthers

InitStats ==
    /\ StatsInit
    /\ MainIdle
    /\ AuxCoreIdle
    /\ FilterIdle
    /\ DurableIdle

SpecStats == InitStats /\ [][StatsNext]_vars

filterOthers == <<mainVars, auxCoreVars, statsVars, durableVars>>

FilterNext ==
    \E answer \in SUBSET Answerable(last_filter(uf_base, uf_known)) :
        GetUnknownServices(answer) /\ UNCHANGED filterOthers

InitFilter ==
    /\ FilterInit
    /\ MainIdle
    /\ AuxCoreIdle
    /\ StatsIdle
    /\ DurableIdle

SpecFilter == InitFilter /\ [][FilterNext]_vars

durableOthers == <<mainVars, auxCoreVars, statsVars, filterVars>>

DurableNext ==
    \/ \E a \in Accounts : DurableProcessChecks(a) /\ UNCHANGED durableOthers
    \/ \E a \in Accounts : DurableMarkCompleted(a) /\ UNCHANGED durableOthers
    \/ DurableCrash /\ UNCHANGED durableOthers
    \/ DurableResume /\ UNCHANGED durableOthers
    \/ DurableFinalize /\ UNCHANGED durableOthers

InitDurable ==
    /\ DurableInit
    /\ MainIdle
    /\ AuxCoreIdle
    /\ StatsIdle
    /\ FilterIdle

SpecDurable == InitDurable /\ [][DurableNext]_vars

-----------------------------------------------------------------------------
(* Properties of _fetch_checks_with_filter, checked under SpecFetch *)

Returned == fpc = "returned"

\* <<1, 2, ..., n>>
FirstPages(n) == [i \in 1..n |-> i]

IsTransient(resp) ==
    \/ resp.kind = "exception"
    \/ resp.kind = "http" /\ resp.code \in RetryableByDesign

\* What FetchOutcomes assumes of a returned fetch: the items are a prefix of the
\* backend's pages, a success without hit_limit holds every page, an error holds none
FetchOutcomeSound ==
    Returned =>
        /\ result.items = FirstPages(Len(result.items))
        /\ (result.success /\ ~result.hit_limit) => (b_last /\ result.len = b_total)
        /\ ~result.success => (result.items = <<>> /\ result.error # NoError)

\* A fetch with the max_pages fetch_service_data passes can return success with
\* hit_limit and no items
FetchFlaggedEmpty ==
    Returned /\ max_pages = 50 /\ result.success /\ result.hit_limit /\ result.len = 0

\* C4 as stated: whenever the backend holds N < 10,000 items and has served its final
\* page (the one without a next-page pointer), the fetch returns all N items with
\* hit_limit = false.
C4_AllItemsBelowCeiling ==
    (Returned /\ b_last /\ b_total < Ceiling)
        => /\ result.success
           /\ result.len = b_total
           /\ result.items = FirstPages(Len(result.items))
           /\ ~result.hit_limit

\* C4 amended: whenever the backend holds N < 9,800 items and its final page is served
\* before the max_pages-th loop iteration (retries count as iterations), the fetch
\* returns success with all N items and hit_limit = false.
C4_AllItemsBelowNearCeiling ==
    (Returned /\ b_last /\ b_total < NearCeiling /\ page_count < max_pages)
        => /\ result.success
           /\ result.len = b_total
           /\ result.items = FirstPages(Len(result.items))
           /\ ~result.hit_limit

C4_Witness ==
    /\ Returned /\ b_last /\ page_count < max_pages
    /\ b_total = 500 /\ Len(result.items) = 4 /\ n_sleeps = 2
    /\ result.success /\ ~result.hit_limit

\* C5: a backend that served exactly 10,000 items, the last page without a next-page
\* pointer, gets hit_limit = true; and in every state where the accumulated count has
\* reached 10,000 the fetch has returned, with hit_limit = true.
C5_CeilingDetected ==
    /\ (Returned /\ b_last /\ b_total = Ceiling) => (result.success /\ result.hit_limit)
    /\ all_len >= Ceiling => (Returned /\ result.success /\ result.hit_limit)

C5_Witness ==
    Returned /\ b_last /\ b_total = Ceiling /\ result.len = Ceiling /\ result.hit_limit

C8_TransientRetried ==
    (Returned /\ ~result.success /\ IsTransient(last_response))
        => retries >= max_retries

\* C9: the request that follows a retried failure asks for the same page as the failed
\* request, and the accumulated and returned items are the backend's pages 1..k, each
\* once and in order.
C9_RetrySamePage ==
    /\ [](all_checks = FirstPages(Len(all_checks)))
    /\ [](Returned /\ result.success => result.items = all_checks)
    /\ [][(fpc = "loop" /\ last_response.kind \in {"http", "exception"}
            /\ last_response # HttpResponse(200) /\ n_requests' = n_requests + 1)
           => req_page' = req_page]_vars

C9_Witness ==
    /\ Returned /\ result.success
    /\ Len(result.items) = 3 /\ n_sleeps = 3 /\ retries = 1 /\ result.len = 500

\* C10: in every state whose latest response is a 4xx other than 429 the fetch has
\* returned, at that request, success false with the error field populated.
C10_NonRetryableAborts ==
    (last_response.kind = "http" /\ last_response.code \in NonRetryable4xx)
        => /\ Returned
           /\ ~result.success
           /\ result.items = <<>>
           /\ result.error # NoError
           /\ result.error = http_error_name(last_response.code)

C10_Witness ==
    /\ Returned /\ last_response = HttpResponse(404)
    /\ all_len = 300 /\ n_sleeps = 1 /\ result.error = "http_404"

-----------------------------------------------------------------------------
(* Properties of the service partitioning, checked under SpecChunk *)

\* fetch_services_concurrently has collected every sub-query of the current status
AllCollected ==
    /\ cpc = "fan_out"
    /\ \A s \in AllServices : sub_state[s] \in {"none", "collected"}

\* The checks of the backend that match the account, the status, the selected risk
\* levels and the created-date range of a query for that status
TrueResultSet(status) ==
    { c \in population :
        /\ c.accountId = Account.id
        /\ c.status = status
        /\ StatusFilter.riskFiltered => c.riskLevel \in StatusFilter.riskLevels
        /\ c.created <= date_range_days([status |-> status]) }

\* Every sub-query of the current status returned success without hit_limit
AllSubQueriesComplete ==
    /\ \A s \in AllServices : sub_result[s].error \in {NoError, "no_data"}
    /\ \A s \in AllServices : <<CurrentStatus, s>> \notin fetch_hit

\* C1 as stated, in its most favourable case: when every sub-query issued for an
\* account and status has been collected, each having succeeded without hit_limit,
\* the deduplicated union of their items is the set of all backend checks matching
\* the account, status, risk levels and created-date range.
C1_UnionIsTrueResultSet ==
    (AllCollected /\ AllSubQueriesComplete)
        => ToSet(_deduplicate_checks(all_items)) = TrueResultSet(CurrentStatus)

\* C2 as stated: once the partitioning of a status has run (the status is in
\* requests_made), a catch-all sub-query excluding the known services was issued
\* for that status.
C2_CatchAllIssued ==
    \A i \in 1..Len(requests_made) :
        \E q \in queries : q.kind = "exclusion" /\ q.status = requests_made[i]

\* C6 as stated: a service whose paged fetch reported hit_limit is in
\* services_hitting_limits once its result is collected, and the account and status
\* are in accounts_hitting_limits once the partitioning of that status has returned.
C6_CeilingHitRecorded ==
    \A h \in fetch_hit :
        /\ (cpc = "fan_out" /\ h[1] = CurrentStatus /\ sub_state[h[2]] = "collected")
               => h[2] \in ToSet(services_hitting_limits)
        /\ h[1] \in ToSet(requests_made)
               => limit_entry(Account.name, h[1])
                      \in ToSet(service_discovery_stats.accounts_hitting_limits)

\* The status whose partitioning returned last
LastStatus == requests_made[Len(requests_made)]

\* The paged fetch of the sub-query for service s and status st failed: it returned
\* an error result or raised
FetchFailed(st, s) ==
    \E e \in fetch_log : e.status = st /\ e.service = s /\ ~e.fetch.success

\* C11: a failed sub-query neither cancels nor discards its siblings. While the
\* fan-out runs, the items of every collected successful sub-query are in all_items;
\* once it has returned, every sub-query of the catalog has run and been collected and
\* the items of the successful ones are in the account's checks; and the call returns
\* (with those items) however many sub-queries failed.
C11_SiblingsUnaffected ==
    /\ cpc = "fan_out" =>
           \A s \in AllServices :
               sub_state[s] = "collected"
                   => ToSet(sub_result[s].items) \subseteq ToSet(all_items)
    /\ (cpc \in {"begin", "done"} /\ requests_made # <<>>) =>
           \A s \in sub_queries(official_services_cache.list) :
               /\ sub_state[s] = "collected"
               /\ \E e \in fetch_log : e.status = LastStatus /\ e.service = s
               /\ ToSet(sub_result[s].items) \subseteq ToSet(account_checks)
    /\ cpc = "done" =>
           /\ account_result.returned
           /\ ToSet(account_result.items) = ToSet(account_checks)

C11_Witness ==
    /\ cpc = "done"
    /\ \E s, f \in AllServices :
           /\ s # f
           /\ FetchFailed(LastStatus, f)
           /\ sub_result[s].items # <<>>
           /\ ToSet(sub_result[s].items) \subseteq ToSet(account_result.items)

\* C12 as stated: services_with_errors holds exactly the collected services whose
\* fetch failed; a service whose fetch succeeded with zero items is not in it.
C12_ErrorsExactlyFailed ==
    cpc = "fan_out" =>
        ToSet(services_with_errors) =
            { s \in AllServices :
                sub_state[s] = "collected" /\ FetchFailed(CurrentStatus, s) }

\* Every check of the true result set of every requested status is of a catalog service
CatalogCovers ==
    \A i \in 1..Len(status_requests) :
        \A c \in TrueResultSet(status_requests[i]) :
            c.service \in ToSet(official_services_cache.list)

\* Every sub-query returned every check the backend holds for it
AllUnderCeiling ==
    \A e \in fetch_log :
        /\ e.fetch.success
        /\ e.fetch.items =
               BackendAnswer(population, service_filter(StatusFilter, e.status, e.service))

\* The true result set of the account over the requested statuses
TrueResultSetOfAccount ==
    UNION { TrueResultSet(status_requests[i]) : i \in 1..Len(status_requests) }

\* C13 as stated: when the catalog covers the true result set and every sub-query
\* returned all its checks (under the ceiling), the account's output holds exactly the
\* true result set, each check once, and nothing is reported as hitting the limit.
C13_ExactCountNoLimit ==
    (cpc = "done" /\ CatalogCovers /\ AllUnderCeiling)
        => /\ ToSet(account_result.items) = TrueResultSetOfAccount
           /\ Len(account_result.items) = Cardinality(TrueResultSetOfAccount)
           /\ service_discovery_stats.accounts_hitting_limits = <<>>

\* C13 amended: the same, when in addition no sub-query's fetch reported hit_limit
\* (fewer than 9,800 items, the last page reached before max_pages iterations).
C13_ExactCountUnflagged ==
    (cpc = "done" /\ CatalogCovers /\ AllUnderCeiling /\ fetch_hit = {})
        => /\ ToSet(account_result.items) = TrueResultSetOfAccount
           /\ Len(account_result.items) = Cardinality(TrueResultSetOfAccount)
           /\ service_discovery_stats.accounts_hitting_limits = <<>>

C13_Witness ==
    /\ cpc = "done" /\ CatalogCovers /\ AllUnderCeiling /\ fetch_hit = {}
    /\ Len(status_requests) = 2
    /\ Len(account_result.items) = 2
    /\ \E c, d \in ToSet(account_result.items) : c.service # d.service

-----------------------------------------------------------------------------
(* Properties of the reporter, checked under SpecReport *)

\* How many times x occurs in seq
Count(seq, x) == Cardinality({ i \in 1..Len(seq) : seq[i] = x })

\* The records handed to the reporter so far under the given status: those in its
\* batch files followed by those in its buffer
Handed(status) ==
    IF status = "FAILURE"
    THEN concat(output_dir.failures) \o streaming_reporter.failures_buffer
    ELSE concat(output_dir.successes) \o streaming_reporter.successes_buffer

\* How often the record of check c has to occur under the given status
Due(c, status) == IF include_check(c) /\ c.status = status THEN 1 ELSE 0

\* C14: while checks are processed, the record of every visited check that passes
\* include_check is held by the reporter exactly once, under its own status and not
\* under the other, and no other record is held; once finalize has run, every check
\* was visited and the Failures and Successes sheets hold exactly those records, once
\* each.
C14_DeliveredOnce ==
    /\ rep_pc = "processing" =>
           \A c \in ToSet(processed), st \in {"FAILURE", "SUCCESS"} :
               Count(Handed(st), record_of(c)) = Due(c, st)
    /\ rep_pc = "finalized" =>
           /\ pending = <<>>
           /\ \A c \in ToSet(processed) :
                  /\ Count(report.Failures, record_of(c)) = Due(c, "FAILURE")
                  /\ Count(report.Successes, record_of(c)) = Due(c, "SUCCESS")
           /\ Len(report.Failures) + Len(report.Successes)
                  = Cardinality({ c \in ToSet(processed) : include_check(c) })

C14_Witness ==
    /\ rep_pc = "finalized" /\ batch_size = 1
    /\ Len(report.Failures) = 2 /\ Len(report.Successes) = 1
    /\ streaming_reporter.failures_batch = 2

-----------------------------------------------------------------------------
(* Properties of ProgressTracker under its callers, checked under SpecTracker *)

\* The thread is inside mark_completed or mark_failed: between the update of the set
\* and the end of the rewrite of the file
InMark(t) == th_pc[t] # "idle"

\* C15 as stated: whenever marks have been made and no mark is in progress, a fresh
\* process loading the session's checkpoint obtains the completed set, the failed set
\* and the total of the process's memory; and the completed accounts of the file on
\* disk are always accounts that were marked completed.
C15_CheckpointRoundTrip ==
    /\ (to_mark # Accounts /\ \A t \in TrackerThreads : ~InMark(t)) =>
           load_progress(files[session_id]) =
               [completed_accounts |-> completed_accounts,
                failed_accounts |-> failed_accounts,
                total_checks |-> total_checks]
    /\ files[session_id].completed_accounts \subseteq completed_accounts

\* C16 as stated: at most one thread at a time is inside a mark.
C16_MarksMutuallyExclusive ==
    Cardinality({ t \in TrackerThreads : InMark(t) }) <= 1

-----------------------------------------------------------------------------
(* Properties of the checkpointed run, checked under SpecRun *)

\* C3 as stated: a process started with --resume after a crashed run has loaded the
\* checkpoint that run left (its completed accounts are in completed_accounts) and
\* issues checks queries for none of them.
C3_ResumeSkipsCompleted ==
    (prior_crashed /\ resume /\ has_token /\ rpc \in {"started", "processing", "exited"})
        => /\ prior_completed \subseteq completed_accounts
           /\ queried \cap prior_completed = {}

\* The process reached the account loop of main
ReachedAccountLoop == \E a \in Accounts : job[a] # "none"

\* C17 as stated: when a run that reached the account loop has ended, its checkpoint
\* file is gone exactly if the run was neither interrupted nor left an account marked
\* failed.
C17_DeletedIffClean ==
    (rpc = "exited" /\ ReachedAccountLoop)
        => (files[session_id].exists <=> (interrupted \/ failed_accounts # {}))

\* C18 as stated: when an interrupted process has exited, the checkpoint file holds
\* every account that was marked completed or failed when the interrupt was raised,
\* and the exit status is not zero.
C18_InterruptFlushedNonZero ==
    (rpc = "exited" /\ interrupted)
        => /\ files[session_id].exists
           /\ at_interrupt.completed_accounts \subseteq files[session_id].completed_accounts
           /\ at_interrupt.failed_accounts \subseteq files[session_id].failed_accounts
           /\ exit_status # 0

\* C19 as stated: after the interrupt no further account is started: the accounts
\* queried are those queried when it was raised.
C19_WorkAbandoned ==
    interrupted => queried = at_interrupt.queried

\* The run is fatal: no token was given, or the account listing failed or was empty
Fatal == ~has_token \/ listed = "nothing"

\* C20: a fatal run has ended, without an interrupt, before any per-account work: no
\* account job was submitted, no checks query was issued, and the completed and
\* failed sets are those the process started with.
C20_FatalAbortsBeforeWork ==
    Fatal =>
        /\ rpc = "exited"
        /\ \A a \in Accounts : job[a] = "none"
        /\ queried = {}
        /\ completed_accounts =
               IF has_token THEN load_progress(files[session_id]).completed_accounts
               ELSE {}
        /\ failed_accounts =
               IF has_token THEN load_progress(files[session_id]).failed_accounts
               ELSE {}

C20_Witness ==
    /\ Fatal /\ has_token /\ resume /\ prior_crashed
    /\ completed_accounts # {} /\ failed_accounts # {}
    /\ exit_status = 0


-----------------------------------------------------------------------------
(* Properties of _deduplicate_checks, checked under SpecDedup *)

\* C21: _deduplicate_checks is idempotent: applied to its own output it returns
\* that output unchanged.
C21_Idempotent ==
    dd_pc = "twice" => deduplicated_again = deduplicated

\* a list that loses a record is deduplicated once and again
C21_Witness ==
    /\ dd_pc = "twice"
    /\ Len(deduplicated) >= 2
    /\ Len(deduplicated) < Len(checks_in)

\* Two positions of the list hold the same id
SharedAt(l, i, j) == i # j /\ l[i].id = l[j].id

\* C22, as stated: no two elements of the output share a non-null identifier.
C22_NoSharedNonNullId ==
    dd_pc # "input" =>
        \A i, j \in 1..Len(deduplicated) :
            SharedAt(deduplicated, i, j) => deduplicated[i].id = NoId

\* C22, amended: no two elements of the output share an identifier that Python
\* counts as true; elements whose id is null, empty or zero are all kept.
C22_NoSharedTruthyId ==
    dd_pc # "input" =>
        \A i, j \in 1..Len(deduplicated) :
            SharedAt(deduplicated, i, j) => ~truthy(deduplicated[i].id)

\* the input repeated a true id and the output kept one of the two
C22_Witness ==
    /\ dd_pc = "once"
    /\ \E i, j \in 1..Len(checks_in) : SharedAt(checks_in, i, j) /\ truthy(checks_in[i].id)
    /\ \E k \in 1..Len(deduplicated) : truthy(deduplicated[k].id)

\* The positions a deduplication has to keep: the first occurrence of every id, and
\* every record that has no id (the code: whose id is falsy)
Kept(l) ==
    {i \in 1..Len(l) : \/ ~truthy(l[i].id)
                       \/ \A j \in 1..(i - 1) : l[j].id # l[i].id}

\* The subsequence of l at the positions K, from position i on
RECURSIVE picked_from(_, _, _)
picked_from(l, K, i) ==
    IF i > Len(l) THEN <<>>
    ELSE (IF i \in K THEN <<l[i]>> ELSE <<>>) \o picked_from(l, K, i + 1)

\* C23: the output is the subsequence of the input that keeps, in input order, the
\* first occurrence of each identifier and every record without one; nothing is
\* reordered and no record without an identifier is dropped.
C23_FirstOccurrencesInOrder ==
    dd_pc # "input" => deduplicated = picked_from(checks_in, Kept(checks_in), 1)

\* an id occurs twice with different records, and a record without an id follows
C23_Witness ==
    /\ dd_pc = "once"
    /\ Len(checks_in) = MaxLen
    /\ checks_in[1].id = checks_in[2].id
    /\ truthy(checks_in[1].id)
    /\ checks_in[1] # checks_in[2]
    /\ checks_in[3].id = NoId
    /\ deduplicated = <<checks_in[1], checks_in[3]>>

-----------------------------------------------------------------------------
(* Properties of the timeframe windows, checked under SpecWindow *)

\* The checks of the population the account's query for a status asks for
Asked(status) ==
    { c \in population : /\ c.accountId = Account.id
                         /\ c.riskLevel \in ToSet(args.risk_levels)
                         /\ c.status = status }

\* C24, as stated: with the FAILURE filter the records output for the account are
\* exactly the backend's matching FAILURE checks whose failureDiscoveredDateTime is
\* inside the last timeframe days, each tagged FAILURE, and none is tagged SUCCESS.
C24_FailureWindowExact ==
    (rep_pc = "finalized" /\ args.status_filter = "failures") =>
        /\ ToSet(report.Failures) =
               { record_of(c) : c \in { x \in Asked("FAILURE") :
                                           in_timeframe(x.failureDiscoveredDateTime) } }
        /\ \A i \in 1..Len(report.Failures) : report.Failures[i].status = "FAILURE"
        /\ report.Successes = <<>>

\* What the code outputs for the FAILURE filter: the matching FAILURE checks created
\* inside the window with any of the three date fields inside the window
FailureWindowOfCode ==
    (rep_pc = "finalized" /\ args.status_filter = "failures") =>
        /\ ToSet(report.Failures) =
               { record_of(c) : c \in { x \in Asked("FAILURE") :
                                           x.created <= timeframe /\ include_check(x) } }
        /\ report.Successes = <<>>

\* C25: a SUCCESS query's created-date filter spans the last 10 * timeframe days,
\* and a fetched SUCCESS check is included exactly when its resolvedDateTime is
\* inside the last timeframe days.
C25_SuccessWindow ==
    (rep_pc = "finalized" /\ args.status_filter = "successes") =>
        \A c \in Asked("SUCCESS") :
            record_of(c) \in ToSet(report.Successes)
                <=> (c.created <= 10 * timeframe /\ in_timeframe(c.resolvedDateTime))

\* a check created 60 days ago and resolved 3 days ago is in the Successes sheet
C25_Witness ==
    /\ rep_pc = "finalized"
    /\ args.status_filter = "successes"
    /\ \E c \in population :
          /\ c.status = "SUCCESS"
          /\ c.created = 60
          /\ c.resolvedDateTime = 3
          /\ record_of(c) \in ToSet(report.Successes)
    /\ \E c \in population : c.status = "SUCCESS" /\ ~in_timeframe(c.resolvedDateTime)

-----------------------------------------------------------------------------
(* Truncation by max_pages, checked under SpecFetch *)

\* The backend may hold items the returned list lacks
MoreCouldRemain == ~b_last \/ result.len < b_total

\* C26: a fetch that returns success while more data could remain (it stopped at
\* max_pages, or at the ceiling) carries hit_limit = true; a truncated list is never
\* returned as a success with hit_limit = false.
C26_TruncationFlagged ==
    (Returned /\ result.success /\ MoreCouldRemain) => result.hit_limit

\* the loop ran max_pages times, every page came with a nextLink, and the list is far
\* below the ceiling: hit_limit is set by the max-pages test alone
C26_Witness ==
    /\ Returned
    /\ result.success
    /\ page_count = max_pages
    /\ ~b_last
    /\ result.len < NearCeiling
    /\ result.len > 0
    /\ result.hit_limit

-----------------------------------------------------------------------------
(* Properties of handle_rate_limit, checked under SpecHandler *)

\* C30: handle_rate_limit(n) returns false without sleeping exactly when
\* n >= max_retries; for every n < max_retries it sleeps once and returns true.
C30_GiveUpExactlyAtMaxRetries ==
    \A t \in HandlerThreads :
        h_pc[t] = "returned" =>
            IF h_retries[t] >= 5
            THEN h_returned[t] = FALSE /\ h_sleeps[t] = 0
            ELSE h_returned[t] = TRUE /\ h_sleeps[t] = 1

\* one thread called it with max_retries and another with max_retries - 1
C30_Witness ==
    \E t, u \in HandlerThreads :
        /\ h_pc[t] = "returned" /\ h_retries[t] = max_retries /\ h_returned[t] = FALSE
        /\ h_pc[u] = "returned" /\ h_retries[u] = max_retries - 1 /\ h_returned[u] = TRUE
        /\ h_sleeps[u] = 1

-----------------------------------------------------------------------------
(* Properties of the service-catalog cache, checked under SpecCatalog *)

\* C27, as stated: during one run the service-catalog endpoint is requested at most
\* once, however many accounts and statuses are processed concurrently.
C27_CatalogRequestedOnce == catalog_requests <= 1

\* A call that starts after the cache is set returns the cached list without a
\* request
CachedCallsDoNotRequest ==
    [][\A w \in AccountWorkers :
          (cat_pc[w] = "call" /\ official_services_cache.fetched
           /\ cat_pc'[w] = "returned")
              => (catalog_requests' = catalog_requests
                  /\ cat_list'[w] = official_services_cache.list)]_vars

\* Two workers of one run were handed different catalogs
CatalogsDiffer ==
    \E w, v \in AccountWorkers :
        /\ cat_calls[w] > 0 /\ cat_calls[v] > 0
        /\ cat_list[w] # cat_list[v]

-----------------------------------------------------------------------------
(* Properties of the service-level concurrency bound, checked under SpecService *)

\* Sub-queries of all accounts that hold a permit
TotalInFlight ==
    Cardinality({ <<w, q>> \in AccountWorkers \X SubQueries : sq_state[w][q] = "in_flight" })

\* C28, as stated: the bound is per account, each concurrently processed account may
\* have up to service_workers sub-queries in flight: a sub-query is kept waiting
\* only while service_workers sub-queries of its own account are in flight.
C28_BoundPerAccount ==
    \A w \in AccountWorkers :
        (InState(w, "waiting") # {} /\ request_semaphore = 0)
            => Cardinality(InFlight(w)) = service_workers

\* What the code bounds: the sub-queries in flight over all accounts together
InFlightBoundIsGlobal == TotalInFlight <= service_workers

\* One account holds every permit while another account's sub-queries wait
OtherAccountStarved ==
    \E w, v \in AccountWorkers :
        /\ Cardinality(InFlight(w)) = service_workers
        /\ InFlight(v) = {}
        /\ Cardinality(InState(v, "waiting")) = service_workers

-----------------------------------------------------------------------------
(* Properties of the request spacing, checked under SpecLimiter *)

\* Successive entries of a list of times are at least rate_limit_delay apart
Spaced(times) ==
    \A i \in 1..(Len(times) - 1) : times[i + 1] - times[i] >= rate_limit_delay

\* C29, as stated: no worker issues a checks request less than rate_limit_delay
\* after its previous checks request, successive page requests of one sub-query
\* included.
C29_RequestsSpaced == \A t \in LimiterThreads : Spaced(req_times[t])

\* What _rate_limit spaces: the passes through it, one per sub-query
RateLimitPassesSpaced == Spaced(stamps)

\* A thread slept inside _rate_limit and both threads went on to their requests
SecondPassSlept ==
    /\ Len(stamps) = service_workers
    /\ stamps[2] - stamps[1] = rate_limit_delay
    /\ \A t \in LimiterThreads : req_times[t] # <<>>

-----------------------------------------------------------------------------
(* The lock of the rate limiter, checked under SpecHandler *)

\* C31, as stated: a worker sleeping in its backoff does not hold the lock, so
\* another worker's concurrent call to handle_rate_limit is never delayed by that
\* sleep: while one thread sleeps, a thread that is to back off finds the lock free.
C31_BackoffDoesNotDelayOthers ==
    \A t, u \in HandlerThreads :
        (t # u /\ h_pc[t] = "locked" /\ h_pc[u] = "call" /\ h_retries[u] < max_retries)
            => rate_limit_lock = 0

\* The backoff sleeps of two threads never overlap
BackoffSleepsSerialized ==
    Cardinality({ t \in HandlerThreads : h_pc[t] = "locked" }) <= 1

-----------------------------------------------------------------------------
(* The two sets of the checkpoint, checked under SpecRun *)

\* C37: in every reachable state of a run, a resumed run that loaded an earlier
\* checkpoint included, completed_accounts and failed_accounts are disjoint.
C37_CompletedFailedDisjoint ==
    rpc \in {"started", "processing", "draining", "exited"}
        => completed_accounts \cap failed_accounts = {}

-----------------------------------------------------------------------------
(* The request budget of one fetch, checked under SpecFetch *)

\* C38: a call of _fetch_checks_with_filter issues at most max_pages HTTP requests,
\* retries included, and so terminates: every step of the call is one request, and
\* a call that has not returned has issued fewer than max_pages of them.
C38_BoundedAndTerminates ==
    /\ [](n_requests <= max_pages /\ (~Returned => n_requests < max_pages))
    /\ [][n_requests' = n_requests + 1]_vars

\* the loop ran out after max_pages requests, some of them retries
C38_Witness ==
    /\ Returned
    /\ n_requests = max_pages
    /\ retries > 0
    /\ result.success

-----------------------------------------------------------------------------
(* The flag of a fetch that ended on the backend's last page, under SpecFetch *)

\* C36, as stated: the fetch returns hit_limit = false whenever it ended because a
\* page arrived without a nextLink and fewer than 9,800 items had been accumulated,
\* however many pages or retries that took.
C36_LastPageNotFlagged ==
    (Returned /\ result.success /\ b_last /\ result.len < 9800) => ~result.hit_limit

\* What the code does: such a fetch is flagged exactly when the page without a
\* nextLink arrived in the max_pages-th loop iteration
LastPageFlaggedIffBudgetSpent ==
    (Returned /\ result.success /\ b_last /\ result.len < 9800)
        => (result.hit_limit <=> page_count >= max_pages)

-----------------------------------------------------------------------------
(* The entries of accounts_hitting_limits, checked under SpecChunk *)

\* C40, as stated: accounts_hitting_limits holds at most one entry per account and
\* status, so its length is the number of account/status pairs that hit the limit.
C40_OneEntryPerPair ==
    LET limits == service_discovery_stats.accounts_hitting_limits
    IN /\ \A i, j \in 1..Len(limits) : limits[i] = limits[j] => i = j
       /\ Len(limits) = Cardinality(ToSet(limits))

\* What the code does: every pair that hit the limit is entered twice
EveryPairEnteredTwice ==
    LET limits == service_discovery_stats.accounts_hitting_limits
    IN Len(limits) = 2 * Cardinality(ToSet(limits))

-----------------------------------------------------------------------------
(* The mark an account gets from get_checks_for_account, checked under SpecChunk *)

EverySubQuerySucceeded == \A e \in fetch_log : e.fetch.success

\* C34, as stated: an account whose service sub-queries all succeeded, those that
\* returned no items included, is not added to failed_accounts and is returned without
\* an error, so that main marks it completed.
C34_SucceededAccountNotFailed ==
    (account_result.returned /\ EverySubQuerySucceeded)
        => (Account.id \notin failed_accounts /\ account_result.error = NoError)

\* What the code does: the account is marked failed exactly when no check was
\* collected for it, whatever the sub-queries answered
FailedIffNothingCollected ==
    account_result.returned
        => /\ Account.id \in failed_accounts <=> account_result.items = <<>>
           /\ account_result.error # NoError <=> account_result.items = <<>>

-----------------------------------------------------------------------------
(* The sets of the checkpoint when main reaches the final report, under SpecRun *)

\* main has left the account loop of a process that was not interrupted
ReachedFinalReport ==
    /\ rpc = "exited"
    /\ exit_status = 0
    /\ ~interrupted
    /\ \E a \in Accounts : job[a] = "handled"

\* C39, as stated: when a run that was not interrupted generates the final report,
\* every account it submitted is in exactly one of completed_accounts and
\* failed_accounts.
C39_ExactlyOneAtFinalReport ==
    ReachedFinalReport
        => \A a \in Accounts :
              job[a] = "handled" => ((a \in completed_accounts) # (a \in failed_accounts))

\* What the code does: every submitted account is in at least one of the two sets,
\* and in exactly one when the process is the first one
AtLeastOneAtFinalReport ==
    ReachedFinalReport
        => \A a \in Accounts :
              job[a] = "handled"
                  => /\ a \in completed_accounts \cup failed_accounts
                     /\ run_no = 1 => ((a \in completed_accounts) # (a \in failed_accounts))

-----------------------------------------------------------------------------
(* The shared statistics of concurrent account workers, checked under SpecStats *)

AllAccountsCollected == st_pending = {} /\ \A w \in AccountWorkers : st_pc[w] = "idle"

\* C32, as stated: no update of the shared statistics is lost, so once every account
\* has been collected accounts_chunked is the number of accounts whose data collection
\* ran.
C32_NoUpdateLost ==
    AllAccountsCollected => service_discovery_stats.accounts_chunked = Cardinality(st_ran)

\* What the code does: the updates of the sets and of the list are never lost, and
\* the counter is at least 1 and at most the number of collections that ran
OnlyCounterUpdatesLost ==
    /\ service_discovery_stats.accounts_chunked <= Cardinality(st_ran)
    /\ st_ran # {} => service_discovery_stats.accounts_chunked >= 1
    /\ \A w \in AccountWorkers :
          st_pc[w] \in {"status", "count", "add", "discover"}
              => st_found[w] \subseteq service_discovery_stats.known_services_found
    /\ \A w \in AccountWorkers :
          (st_pc[w] \in {"count", "add", "discover"} /\ st_hit[w])
              => limit_entry(st_account[w], "FAILURE")
                     \in ToSet(service_discovery_stats.accounts_hitting_limits)
    /\ AllCollected => discovered_services = service_discovery_stats.known_services_found

-----------------------------------------------------------------------------
(* The catch-all filter of _get_unknown_services, checked under SpecFilter *)

\* C33, as stated: every catch-all filter sent is within the ceiling of 1,500
\* characters, and when the filter over the full exclusion list does not fit, a
\* shorter prefix of the catalog that fits is excluded and sent instead.
C33_SentWithinCeilingByTruncation ==
    uf_pc # "call"
        => /\ \A i \in 1..Len(uf_sent) : uf_sent[i].length <= FilterCeiling
           /\ too_long(uf_tries[1])
                 => /\ uf_pc = "sent"
                    /\ uf_sent[1].excluded < uf_tries[1].excluded
                    /\ uf_sent[1].length <= FilterCeiling

\* What the code does: a filter that is sent is within the ceiling; a filter that did
\* not fit is rebuilt once over the first max_exclusions services, which are no fewer
\* than before unless base_filter is longer than 740 characters, and the catch-all
\* query is given up when the rebuilt filter does not fit either
SentFilterWithinCeiling ==
    uf_pc # "call"
        => /\ \A i \in 1..Len(uf_sent) : uf_sent[i].length <= FilterCeiling
           /\ uf_pc = "skipped" <=> too_long(uf_tries[Len(uf_tries)])
           /\ (Len(uf_tries) = 2 /\ uf_base <= 740) => uf_pc = "skipped"

\* A call in which the rebuilt filter fits and is sent
TruncatedFilterSent ==
    /\ uf_pc = "sent"
    /\ Len(uf_tries) = 2
    /\ uf_sent[1].excluded < uf_tries[1].excluded

-----------------------------------------------------------------------------
(* Records on disk and accounts in the checkpoint, checked under SpecDurable *)

\* The records in the batch files of the session directory
OnDisk == ToSet(concat(dur_dir.failures)) \cup ToSet(concat(dur_dir.successes))

\* The records in the buffers of the running process
Buffered == ToSet(dur_reporter.failures_buffer) \cup ToSet(dur_reporter.successes_buffer)

\* C35, as stated: every included record of an account in the checkpoint's completed
\* set is in a batch file on disk, so the batch files of a resumed and finished
\* session hold every record of every completed account.
C35_CompletedRecordsOnDisk ==
    \A a \in dur_saved : ToSet(records_of_account(a)) \subseteq OnDisk

\* What the code does: in the first process of a session the records of a completed
\* account are on disk or still in a buffer of the reporter
CompletedRecordsOnDiskOrBuffered ==
    (dur_runs = 1 /\ dur_pc = "running")
        => \A a \in dur_saved : ToSet(records_of_account(a)) \subseteq OnDisk \cup Buffered

\* A resumed session whose final batch files lack a record of a completed account
ResumedReportLacksRecord ==
    /\ dur_pc = "finalized"
    /\ dur_runs > 1
    /\ \E a \in dur_saved : ~(ToSet(records_of_account(a)) \subseteq OnDisk)

=============================================================================
